---------------------------- MODULE Spec2Model ----------------------------
(***************************************************************************)
(* A model of the signal-to-orders pipeline of Envolees-auto:              *)
(*   - the webhook intake and the signal queue worker (webhook/server.py), *)
(*   - the multi-account dispatcher and its pre-trade filters              *)
(*     (services/order_placer.py),                                         *)
(*   - the expiry reaper and its candle calculator                         *)
(*     (services/order_cleaner.py).                                        *)
(* Each subsystem has its own specification over the shared variables:     *)
(* SpecQueue, SpecPlace, SpecReaper.                                       *)
(***************************************************************************)
EXTENDS Integers, Sequences, FiniteSets, TLC

VARIABLES
    config,             \* the loaded AppConfig (the fields the model reads)
    probe,              \* the one request every client sends, NoRequest when any
    \* ---- webhook/server.py
    signalQueue,        \* _signal_queue: FIFO of request indices
    queueWorkerStarted, \* _queue_worker_started
    lockHolder,         \* the starter holding _queue_worker_lock, 0 when free
    starterPc,          \* position of each start_queue_worker() call
    wpc,                \* position of each worker thread
    witem,              \* the item a worker thread holds
    reqPc,              \* position of each /webhook request
    reqSignal,          \* the SignalData a request built (NoSignal before)
    response,           \* the HTTP answer of each request
    accepted,           \* history: the requests that passed every check of webhook()
    putLog,             \* history: request indices in the order of put()
    dispatchLog,        \* history: request indices in the order of place_signal()
    \* ---- the brokers' side
    brokerPending,      \* per account, the pending orders the broker holds
    \* ---- services/order_placer.py
    placeStatus,        \* place_signal: "none", "running", "returned" or "raised"
    sigSymbol,          \* signal.symbol of the signal being dispatched
    targets,            \* target_brokers
    placeIdx,           \* position of the loop over target_brokers
    results,            \* the results map (account -> outcome, "none" when absent)
    faulted,            \* history: accounts whose adapter failed in this dispatch
    obs,                \* history: what the last account step saw and did
    \* ---- services/order_cleaner.py
    now,                \* the wall clock, in minutes since the Unix epoch
    cleanPc,            \* cleanup_all: "idle", "list", "orders" or "done"
    cleanB,             \* position of the loop over self.brokers
    cleanOrders,        \* `orders`, the listing cleanup_broker works through
    cleanIdx,           \* position of the loop over orders
    listedLog,          \* history: the <<account, order>> pairs listed in this cycle
    cancelLog,          \* history: the <<account, order id>> pairs cancel_order got
    cleanErrors,        \* history: accounts whose cleanup ended in the except branch
    cycleClean,         \* history: every broker call of this cycle succeeded so far
    prevCycle,          \* history: how the cycle before this one went
    \* ---- services/position_sizer.py
    sizeIn,             \* the instrument's configuration and the arguments of calculate
    sizeOut,            \* the PositionSize that calculate returned (NoSize before)
    sizePip             \* the pip value per lot that _get_pip_value returned

queueVars == <<signalQueue, queueWorkerStarted, lockHolder, starterPc, wpc, witem,
               reqPc, reqSignal, response, accepted, putLog, dispatchLog>>

brokerVars == <<brokerPending>>

placeVars == <<placeStatus, sigSymbol, targets, placeIdx, results, faulted, obs>>

reapVars == <<now, cleanPc, cleanB, cleanOrders, cleanIdx, listedLog, cancelLog,
              cleanErrors, cycleClean, prevCycle>>

sizerVars == <<sizeIn, sizeOut, sizePip>>

nonQueueVars == <<brokerVars, placeVars, reapVars, sizerVars>>

\* the variables of the subsystems down to the position sizer
coreVars == <<config, probe, queueVars, brokerVars, placeVars, reapVars, sizerVars>>

VARIABLES
    \* ---- webhook/server.py: the worker's loop and the wall clock
    clock,              \* time.time(), in milliseconds
    last_signal_time,   \* the worker's local of that name (0 before the first signal)
    jobs,               \* the items waiting in _signal_queue
    nput,               \* history: how many items were put so far
    wstep,              \* the worker's position: "get", "wait", "run", "finally", "dead"
    job,                \* the item the worker took
    runs,               \* history: per dispatch, its item, start, end and outcome
    \* ---- services/order_cleaner.py: a call of count_closed_candles
    candIn,             \* the symbol and the instant t of the call
    candOut,            \* the counts returned for (t, t) and (t, t + one bar)
    \* ---- brokers/ctrader.py, brokers/tradelocker.py: the adapters' operations
    adConnected,        \* per adapter, self._connected
    adReconciled,       \* the cTrader adapter has processed a reconcile response
    adCall,             \* history: the last operation called, its argument and how it ended
    delPc,              \* TradeLocker cancel_order: "idle", "attempt", "returned" or "recorded"
    delTry,             \* `attempt`, the loop variable of cancel_order
    delLog,             \* history: the DELETE requests, their answers and the sleeps
    delResult,          \* the OrderResult cancel_order returned
    statsErrors,        \* the reaper's stats["errors"] for the order
    \* ---- brokers/ctrader.py, config/__init__.py: the rotation of the cTrader tokens
    tokDisk,            \* the configuration file: its state and the broker's pair in it
    tokMem,             \* _config: whether a configuration is loaded and the broker's pair in it
    tokSelf,            \* the adapter's self.access_token and self.refresh_token
    tokPc,              \* the step _refresh_access_token has reached
    tokRet,             \* what _refresh_access_token returned: "none", "true" or "false"
    tokNew,             \* the pair update_broker_tokens is writing
    tokOld,             \* history: the file's pair when the rotation began
    tokCount,           \* the refreshes requested up to now
    \* ---- brokers/ctrader.py: requests and responses of the cTrader connection
    rpcPending,         \* self._pending_requests: per kind, the request whose future is stored (0: no entry)
    rpcReq,             \* history: the requests made, each with its kind, its state and the response that resolved it
    rpcWire,            \* the requests whose response has not been delivered yet
    \* ---- services/order_placer.py: the account value of _place_on_broker
    valIn,              \* the general.use_equity setting and the AccountInfo of the call
    valOut,             \* the account_value handed to calculate_position_size
    \* ---- webhook/server.py: calls of parse_tradingview_alert
    parseIn,            \* the text of a call of parse_tradingview_alert, a line and where it is inserted
    parseOut,           \* the dicts parsed from the text and from the text with the line
    \* ---- brokers/ctrader.py: the adapters of one account and the token endpoint
    shPc,               \* per holder of a cTrader adapter: "none", "built" or "connected"
    shToken,            \* per holder, the adapter's self.refresh_token
    shRefreshed,        \* per holder, the adapter's _token_refreshed
    shStore,            \* the refresh token of the account in the configuration
    shValid,            \* the refresh token the endpoint accepts
    shPresented,        \* history: the refresh tokens presented to the endpoint, with their holder
    \* ---- brokers/ctrader.py: place_order and the order messages
    ordPending,         \* the call whose future is stored under "order_place" (0: no entry)
    ordCalls            \* history: the calls of place_order, each with its state, its result and the message that resolved it

paceVars == <<clock, last_signal_time, jobs, nput, wstep, job, runs>>

candleVars == <<candIn, candOut>>

adapterVars == <<adConnected, adReconciled, adCall, delPc, delTry, delLog, delResult,
                 statsErrors>>

tokenVars == <<tokDisk, tokMem, tokSelf, tokPc, tokRet, tokNew, tokOld, tokCount>>

rpcVars == <<rpcPending, rpcReq, rpcWire>>

valueVars == <<valIn, valOut>>

parseVars == <<parseIn, parseOut>>

shareVars == <<shPc, shToken, shRefreshed, shStore, shValid, shPresented>>

ordVars == <<ordPending, ordCalls>>

\* the variables of the subsystems below the position sizer
extraVars == <<paceVars, candleVars, adapterVars, tokenVars, rpcVars, valueVars, parseVars, shareVars, ordVars>>

\* what the actions on paceVars leave alone
paceFrame == <<coreVars, candleVars, adapterVars, tokenVars, rpcVars, valueVars,
               parseVars, shareVars, ordVars>>

\* what the actions on candleVars leave alone
candleFrame == <<coreVars, paceVars, adapterVars, tokenVars, rpcVars, valueVars,
                 parseVars, shareVars, ordVars>>

\* what the actions on adapterVars leave alone
adapterFrame == <<coreVars, paceVars, candleVars, tokenVars, rpcVars, valueVars,
                  parseVars, shareVars, ordVars>>

\* what the actions on tokenVars leave alone
tokenFrame == <<coreVars, paceVars, candleVars, adapterVars, rpcVars, valueVars,
                parseVars, shareVars, ordVars>>

\* what the actions on rpcVars leave alone
rpcFrame == <<coreVars, paceVars, candleVars, adapterVars, tokenVars, valueVars,
              parseVars, shareVars, ordVars>>

\* what the actions on valueVars leave alone
valueFrame == <<coreVars, paceVars, candleVars, adapterVars, tokenVars, rpcVars,
                parseVars, shareVars, ordVars>>

\* what the actions on parseVars leave alone
parseFrame == <<coreVars, paceVars, candleVars, adapterVars, tokenVars, rpcVars,
                valueVars, shareVars, ordVars>>

\* what the actions on shareVars leave alone
shareFrame == <<coreVars, paceVars, candleVars, adapterVars, tokenVars, rpcVars,
                valueVars, parseVars, ordVars>>

\* what the actions on ordVars leave alone
ordFrame == <<coreVars, paceVars, candleVars, adapterVars, tokenVars, rpcVars,
              valueVars, parseVars, shareVars>>

vars == <<coreVars, extraVars>>


(***************************************************************************)
(* Bounds of the model.                                                    *)
(***************************************************************************)
MaxRequests == 2
MaxStarters == 2
MaxBrokerPending == 2    \* pending orders a broker account accepts
MaxPositions == 1        \* open positions an account holds

Requests == 1..MaxRequests
Starters == 1..MaxStarters

(***************************************************************************)
(* Generic helpers.                                                        *)
(***************************************************************************)
Get(d, k, default) == IF k \in DOMAIN d THEN d[k] ELSE default

IsPrefix(s, t) == Len(s) <= Len(t) /\ \A i \in 1..Len(s) : s[i] = t[i]

SeqCount(s, x) == Cardinality({i \in 1..Len(s) : s[i] = x})

(***************************************************************************)
(* JSON values: a number or a string.  A payload is a function from the    *)
(* keys it holds to values.                                                *)
(***************************************************************************)
Num(n) == [t |-> "num", v |-> n]
Str(x) == [t |-> "str", s |-> x]

\* str.upper() on the strings the model uses
Upper(x) ==
    CASE x = "long" -> "LONG"
      [] x = "short" -> "SHORT"
      [] x = "buy" -> "BUY"
      [] x = "sell" -> "SELL"
      [] x = "foo" -> "FOO"
      [] x = "eurusd" -> "EURUSD"
      [] x = "gold" -> "GOLD"
      [] OTHER -> x

NoSignal == [symbol |-> "", side |-> "", entry_price |-> 0, stop_loss |-> 0,
             take_profit |-> 0, order_type |-> "", validity_bars |-> 0]

\* The attributes class SignalData defines (fields, properties and methods).
SignalDataAttrs ==
    {"symbol", "side", "entry_price", "stop_loss", "take_profit", "order_type",
     "validity_bars", "atr", "timeframe", "source", "timestamp", "raw_message",
     "__post_init__", "order_side", "broker_order_type", "calculate_risk_pips",
     "from_webhook"}

\* SignalData.__post_init__: the side is upper-cased, BUY and SELL are renamed.
PostInitSide(side) ==
    LET u == Upper(side)
    IN  IF u \in {"BUY", "LONG"} THEN "LONG"
        ELSE IF u \in {"SELL", "SHORT"} THEN "SHORT"
        ELSE u

\* float(x) / int(x) succeed on a number; on the model's strings they raise.
ConvertsToNumber(x) == x.t = "num"

\* SignalData.from_webhook: [ok |-> FALSE] when a conversion raises.
from_webhook(data) ==
    LET symbol == Get(data, "symbol", Str(""))
        side == Get(data, "side", Get(data, "action", Str("")))
        entry == Get(data, "entry", Get(data, "entry_price", Get(data, "price", Num(0))))
        sl == Get(data, "sl", Get(data, "stop_loss", Num(0)))
        tp == Get(data, "tp", Get(data, "take_profit", Num(0)))
        ot == Get(data, "order_type", Str("LIMIT"))
        vb == Get(data, "validity_bars", Get(data, "validBars", Num(1)))
    IN  IF /\ symbol.t = "str" /\ side.t = "str"
           /\ ConvertsToNumber(entry) /\ ConvertsToNumber(sl) /\ ConvertsToNumber(tp)
           /\ ConvertsToNumber(vb)
        THEN [ok |-> TRUE,
              signal |-> [symbol |-> Upper(symbol.s), side |-> PostInitSide(side.s),
                          entry_price |-> entry.v, stop_loss |-> sl.v,
                          take_profit |-> tp.v, order_type |-> ot.s,
                          validity_bars |-> vb.v]]
        ELSE [ok |-> FALSE, signal |-> NoSignal]

(***************************************************************************)
(* webhook/server.py: the request filters.                                 *)
(***************************************************************************)
tradingview_ips == {"52.89.214.238", "34.212.75.30", "54.218.53.128", "52.32.178.7"}

check_ip_allowed(allowed_ips, remote_addr, forwarded_for) ==
    IF allowed_ips = {} THEN TRUE
    ELSE LET client_ip == IF forwarded_for # "" THEN forwarded_for ELSE remote_addr
         IN  client_ip \in allowed_ips \/ client_ip \in tradingview_ips

\* require_auth: TRUE when the wrapped handler is called, FALSE on abort(401).
require_auth(expected_token, req) ==
    \/ expected_token = "CHANGE_ME"
    \/ req.authorization.scheme = "Bearer" /\ req.authorization.token = expected_token
    \/ req.x_webhook_token = expected_token
    \/ req.query_token = expected_token
    \/ /\ req.is_json
       /\ Get(req.data, "token", Get(req.data, "secret", Str(""))) = Str(expected_token)

\* The required-field loop of webhook(): the first missing field, or "" if none.
AltField(f) == CASE f = "entry" -> "entry_price"
                 [] f = "sl" -> "stop_loss"
                 [] f = "tp" -> "take_profit"
                 [] OTHER -> ""

FieldMissing(data, f) ==
    f \notin DOMAIN data /\ (AltField(f) = "" \/ AltField(f) \notin DOMAIN data)

\* the check that forgets the take profit
required_fields_no_tp == <<"symbol", "side", "entry", "sl">>

required_fields == <<"symbol", "side", "entry", "sl", "tp">>

MissingRequired(data) == \E i \in 1..Len(required_fields) : FieldMissing(data, required_fields[i])

(***************************************************************************)
(* The requests the model sends: an origin, credentials and a payload.     *)
(***************************************************************************)
Secret == "s3cret"

Origins ==
    { [remote_addr |-> "10.0.0.1", forwarded_for |-> ""],
      [remote_addr |-> "6.6.6.6", forwarded_for |-> ""],
      [remote_addr |-> "6.6.6.6", forwarded_for |-> "52.89.214.238"] }

NoAuth == [scheme |-> "", token |-> ""]

Credentials ==
    { [authorization |-> NoAuth, x_webhook_token |-> "", query_token |-> "", body |-> ""],
      [authorization |-> [scheme |-> "Bearer", token |-> Secret], x_webhook_token |-> "",
       query_token |-> "", body |-> ""],
      [authorization |-> [scheme |-> "Basic", token |-> Secret], x_webhook_token |-> "",
       query_token |-> "", body |-> ""],
      [authorization |-> NoAuth, x_webhook_token |-> Secret, query_token |-> "", body |-> ""],
      [authorization |-> NoAuth, x_webhook_token |-> "", query_token |-> Secret, body |-> ""],
      [authorization |-> NoAuth, x_webhook_token |-> "wrong", query_token |-> "", body |-> Secret] }

PayloadLong ==
    [symbol |-> Str("eurusd"), side |-> Str("LONG"), entry |-> Num(10850),
     sl |-> Num(10800), tp |-> Num(10950)]
PayloadAltNames ==
    [symbol |-> Str("GOLD"), side |-> Str("sell"), entry_price |-> Num(26505),
     stop_loss |-> Num(26700), take_profit |-> Num(26000)]
PayloadMissingTp ==
    [symbol |-> Str("EURUSD"), side |-> Str("LONG"), entry |-> Num(10850), sl |-> Num(10800)]
PayloadNotNumeric ==
    [symbol |-> Str("EURUSD"), side |-> Str("LONG"), entry |-> Str("abc"),
     sl |-> Num(10800), tp |-> Num(10950)]
PayloadBadSide ==
    [symbol |-> Str("EURUSD"), side |-> Str("foo"), entry |-> Num(10850),
     sl |-> Num(10800), tp |-> Num(10950)]

\* a LONG whose stop loss is above its entry
PayloadBadPrices ==
    [symbol |-> Str("EURUSD"), side |-> Str("LONG"), entry |-> Num(10850),
     sl |-> Num(10900), tp |-> Num(10950)]

Payloads == {PayloadLong, PayloadAltNames, PayloadMissingTp, PayloadNotNumeric, PayloadBadSide}

\* the JSON body: the payload, plus a "secret" field when the credentials use the body
WithBodyToken(p, tok) ==
    IF tok = "" THEN p
    ELSE [k \in DOMAIN p \cup {"secret"} |-> IF k = "secret" THEN Str(tok) ELSE p[k]]

\* A text body is a sequence of lines.  A line holds its words; a line
\* "key: value" holds, besides, the key and the value's first word.
HeadLine(words) == [words |-> words, key |-> "", value |-> Str("")]
KeyLine(key, value) == [words |-> <<key>>, key |-> key, value |-> value]
\* a line "key: text": the key, the words of the text, its first word as value
NoteLine(key, text) ==
    [words |-> <<key>> \o text, key |-> key,
     value |-> IF text = <<>> THEN Str("") ELSE Str(text[1])]

TextLong ==
    << HeadLine(<<"LONG", "EURUSD", "(H4)">>), KeyLine("Entry", Num(10850)),
       KeyLine("SL", Num(10800)), KeyLine("TP", Num(10950)) >>
TextNoSymbol ==
    << HeadLine(<<"LONG">>), KeyLine("Entry", Num(10850)),
       KeyLine("SL", Num(10800)), KeyLine("TP", Num(10950)) >>
TextBadTp ==
    << HeadLine(<<"LONG", "EURUSD", "(H4)">>), KeyLine("Entry", Num(10850)),
       KeyLine("SL", Num(10800)), KeyLine("TP", Str("abc")) >>

Texts == {TextLong, TextNoSymbol, TextBadTp}

NoRequest ==
    [remote_addr |-> "", forwarded_for |-> "", authorization |-> NoAuth,
     x_webhook_token |-> "", query_token |-> "", is_json |-> FALSE, data |-> <<>>,
     text |-> <<>>]

JsonRequests(payloads) ==
    { [remote_addr |-> o.remote_addr, forwarded_for |-> o.forwarded_for,
       authorization |-> c.authorization, x_webhook_token |-> c.x_webhook_token,
       query_token |-> c.query_token, is_json |-> TRUE, data |-> WithBodyToken(p, c.body),
       text |-> <<>>]
      : o \in Origins, c \in Credentials, p \in payloads }

RequestInputs == JsonRequests(Payloads)

TextRequests ==
    { [remote_addr |-> o.remote_addr, forwarded_for |-> o.forwarded_for,
       authorization |-> c.authorization, x_webhook_token |-> c.x_webhook_token,
       query_token |-> c.query_token, is_json |-> FALSE, data |-> <<>>, text |-> t]
      : o \in Origins, c \in {d \in Credentials : d.body = ""}, t \in Texts }

\* every request content the server is probed with
IntakeInputs == RequestInputs \cup JsonRequests({PayloadBadPrices}) \cup TextRequests

\* the requests that arrive in a run
Incoming == IF probe = NoRequest THEN RequestInputs ELSE {probe}


(***************************************************************************)
(* The configuration: the defaults of config/__init__.py, and the values   *)
(* the model varies.                                                       *)
(***************************************************************************)
\* The instruments catalog maps a signal symbol to each account's name for
\* it; GOLD is not offered on the cTrader account.  Each broker entry carries
\* the adapter's own instruments_mapping.  The caps are set where the model's
\* accounts can reach them.
DefaultConfig ==
    [allowed_ips |-> {}, secret_token |-> "CHANGE_ME",
     on_filter_skip |-> TRUE,
     prevent_duplicate_orders |-> TRUE,
     min_margin_percent |-> 30,
     max_open_positions |-> MaxPositions,
     max_pending_orders |-> MaxBrokerPending,
     broker_order |-> <<>>,
     delay_between_brokers |-> [enabled |-> TRUE, min_ms |-> 500, max_ms |-> 3000],
     order_timeout_candles |-> 4,
     instruments |->
        [EURUSD |-> [ftmo_ctrader |-> "1", gft_tradelocker |-> "EURUSD.X"],
         GOLD   |-> [gft_tradelocker |-> "XAUUSD"]],
     brokers |->
        [ftmo_ctrader    |-> [type |-> "ctrader",
                              instruments_mapping |-> [EURUSD |-> "1"]],
         gft_tradelocker |-> [type |-> "tradelocker",
                              instruments_mapping |-> <<>>]]]

\* the defaults; delays switched off; a fixed delay
DelayConfigs ==
    { DefaultConfig,
      [DefaultConfig EXCEPT !.delay_between_brokers.enabled = FALSE],
      [DefaultConfig EXCEPT !.delay_between_brokers.min_ms = 1500,
                            !.delay_between_brokers.max_ms = 1500] }

\* an installation left at the defaults, and one with a secret and an allow-list
WebhookConfigs ==
    { DefaultConfig,
      [DefaultConfig EXCEPT !.allowed_ips = {"10.0.0.1"}, !.secret_token = Secret] }

(***************************************************************************)
(* webhook/server.py: start_queue_worker().                                *)
(***************************************************************************)
\* a with-block that does not exclude a second thread
LockFree_ignored == TRUE

\* `with _queue_worker_lock:` is entered only when no thread holds the lock
LockFree == lockHolder = 0

StartAcquire(s) ==
    /\ starterPc[s] = "idle"
    /\ s > 1 => starterPc[s - 1] # "idle"      \* callers are numbered as they arrive
    /\ LockFree
    /\ lockHolder' = s
    /\ starterPc' = [starterPc EXCEPT ![s] = "locked"]
    /\ UNCHANGED <<config, probe, extraVars, nonQueueVars, accepted, signalQueue, queueWorkerStarted, wpc, witem, reqPc, reqSignal,
                   response, putLog, dispatchLog>>

\* `if _queue_worker_started: return`, leaving the with-block
StartTest(s) ==
    /\ starterPc[s] = "locked"
    /\ starterPc' = [starterPc EXCEPT ![s] = IF queueWorkerStarted THEN "returned" ELSE "set"]
    /\ lockHolder' = IF queueWorkerStarted /\ lockHolder = s THEN 0 ELSE lockHolder
    /\ UNCHANGED <<config, probe, extraVars, nonQueueVars, accepted, signalQueue, queueWorkerStarted, wpc, witem, reqPc, reqSignal,
                   response, putLog, dispatchLog>>

\* `_queue_worker_started = True`, leaving the with-block
StartSet(s) ==
    /\ starterPc[s] = "set"
    /\ queueWorkerStarted' = TRUE
    /\ lockHolder' = IF lockHolder = s THEN 0 ELSE lockHolder
    /\ starterPc' = [starterPc EXCEPT ![s] = "spawn"]
    /\ UNCHANGED <<config, probe, extraVars, nonQueueVars, accepted, signalQueue, wpc, witem, reqPc, reqSignal,
                   response, putLog, dispatchLog>>

\* `thread = threading.Thread(target=worker, ...); thread.start()`
StartSpawn(s) ==
    /\ starterPc[s] = "spawn"
    /\ wpc' = [wpc EXCEPT ![s] = "get"]
    /\ starterPc' = [starterPc EXCEPT ![s] = "returned"]
    /\ UNCHANGED <<config, probe, extraVars, nonQueueVars, accepted, signalQueue, queueWorkerStarted, lockHolder, witem, reqPc,
                   reqSignal, response, putLog, dispatchLog>>

(***************************************************************************)
(* webhook/server.py: the worker thread.                                   *)
(***************************************************************************)
\* a LIFO queue: get() removes the newest item
QueueGet_lifo(q) == [item |-> q[Len(q)], rest |-> SubSeq(q, 1, Len(q) - 1)]

\* queue.Queue is FIFO: get() removes the oldest item
QueueGet(q) == [item |-> Head(q), rest |-> Tail(q)]

\* `item = _signal_queue.get(timeout=60)`; on Empty the loop simply retries
WorkerGet(w) ==
    /\ wpc[w] = "get"
    /\ signalQueue # <<>>
    /\ witem' = [witem EXCEPT ![w] = QueueGet(signalQueue).item]
    /\ signalQueue' = QueueGet(signalQueue).rest
    /\ wpc' = [wpc EXCEPT ![w] = "process"]
    /\ UNCHANGED <<config, probe, extraVars, nonQueueVars, accepted, queueWorkerStarted, lockHolder, starterPc, reqPc, reqSignal,
                   response, putLog, dispatchLog>>

\* `loop.run_until_complete(placer.place_signal(signal, brokers))` is entered
WorkerDispatch(w) ==
    /\ wpc[w] = "process"
    /\ dispatchLog' = Append(dispatchLog, witem[w].rid)
    /\ wpc' = [wpc EXCEPT ![w] = "placing"]
    /\ UNCHANGED <<config, probe, extraVars, nonQueueVars, accepted, signalQueue, queueWorkerStarted, lockHolder, starterPc, witem,
                   reqPc, reqSignal, response, putLog>>

\* place_signal returns or raises (caught and logged); `finally:` task_done()
WorkerDone(w) ==
    /\ wpc[w] = "placing"
    /\ wpc' = [wpc EXCEPT ![w] = "get"]
    /\ witem' = [witem EXCEPT ![w] = [rid |-> 0, signal |-> NoSignal]]
    /\ UNCHANGED <<config, probe, extraVars, nonQueueVars, accepted, signalQueue, queueWorkerStarted, lockHolder, starterPc,
                   reqPc, reqSignal, response, putLog, dispatchLog>>

(***************************************************************************)
(* webhook/server.py: POST /webhook.                                       *)
(***************************************************************************)
NoResponse == [status |-> 0, body |-> "", queue_position |-> 0]

\* str.lower() on the keys the model uses
Lower(x) ==
    CASE x = "Entry" -> "entry"
      [] x = "SL" -> "sl"
      [] x = "TP" -> "tp"
      [] x = "ATR" -> "atr"
      [] x = "Validity" -> "validity"
      [] OTHER -> x

\* `data[k] = v`
Put(d, k, v) == [j \in DOMAIN d \cup {k} |-> IF j = k THEN v ELSE d[j]]

\* the word after the first word that is `side`, brackets removed; "" if none
WordAfter(words, side) ==
    LET at == {i \in 1..Len(words) : Upper(words[i]) = side /\ i + 1 <= Len(words)}
        first == CHOOSE i \in at : \A j \in at : i <= j
    IN  IF at = {} THEN ""
        ELSE IF words[first + 1] = "(H4)" THEN "H4" ELSE words[first + 1]

\* one line of parse_tradingview_alert
ParseLine(data, line) ==
    LET has(side) == \E i \in 1..Len(line.words) : Upper(line.words[i]) = side
        side == IF has("LONG") THEN "LONG" ELSE IF has("SHORT") THEN "SHORT" ELSE ""
        d1 == IF side = "" THEN data
              ELSE IF WordAfter(line.words, side) = "" THEN Put(data, "side", Str(side))
              ELSE Put(Put(data, "side", Str(side)), "symbol",
                       Str(WordAfter(line.words, side)))
        key == Lower(line.key)
    IN  IF line.key = "" \/ ~ConvertsToNumber(line.value) THEN d1
        ELSE IF key \in {"entry", "sl", "tp", "atr"} THEN Put(d1, key, line.value)
        ELSE IF key = "validity" THEN Put(d1, "validity_bars", line.value)
        ELSE d1

RECURSIVE ParseLines(_, _)
ParseLines(data, lines) ==
    IF lines = <<>> THEN data
    ELSE ParseLines(ParseLine(data, Head(lines)), Tail(lines))

parse_tradingview_alert(text) == ParseLines(<<>>, text)

\* `data`: request.get_json(), or the text message parsed
Body(req) == IF req.is_json THEN req.data ELSE parse_tradingview_alert(req.text)

\* before_request, require_auth and webhook() up to SignalData.from_webhook
WebhookOutcome(cfg, req) ==
    IF ~check_ip_allowed(cfg.allowed_ips, req.remote_addr, req.forwarded_for)
    THEN [status |-> 403, signal |-> NoSignal]
    ELSE IF ~require_auth(cfg.secret_token, req)
    THEN [status |-> 401, signal |-> NoSignal]
    ELSE IF MissingRequired(Body(req))
    THEN [status |-> 400, signal |-> NoSignal]
    ELSE IF ~from_webhook(Body(req)).ok
    THEN [status |-> 500, signal |-> NoSignal]
    ELSE [status |-> 0, signal |-> from_webhook(Body(req)).signal]

WebhookReceive(r) ==
    /\ reqPc[r] = "new"
    /\ r > 1 => reqPc[r - 1] # "new"           \* requests are numbered as they arrive
    /\ \E req \in Incoming :
          LET out == WebhookOutcome(config, req)
          IN  IF out.status # 0
              THEN /\ response' = [response EXCEPT ![r] = [status |-> out.status,
                                       body |-> "error", queue_position |-> 0]]
                   /\ reqPc' = [reqPc EXCEPT ![r] = "done"]
                   /\ UNCHANGED <<reqSignal, accepted>>
              ELSE /\ reqSignal' = [reqSignal EXCEPT ![r] = out.signal]
                   /\ reqPc' = [reqPc EXCEPT ![r] = "put"]
                   /\ accepted' = accepted \cup {r}
                   /\ UNCHANGED response
    /\ UNCHANGED <<config, probe, extraVars, nonQueueVars, signalQueue, queueWorkerStarted,
                   lockHolder, starterPc, wpc, witem, putLog, dispatchLog>>

\* queue_signal(): `_signal_queue.put((request_id, signal, brokers))`
queue_signal(r) ==
    /\ reqPc[r] = "put"
    /\ signalQueue' = Append(signalQueue, [rid |-> r, signal |-> reqSignal[r]])
    /\ putLog' = Append(putLog, r)
    /\ reqPc' = [reqPc EXCEPT ![r] = "respond"]
    /\ UNCHANGED <<config, probe, extraVars, nonQueueVars, accepted, queueWorkerStarted, lockHolder, starterPc, wpc, witem,
                   reqSignal, response, dispatchLog>>

\* The response dictionary is built: `round(signal.calculate_rr_ratio(), 2)` raises
\* AttributeError when SignalData has no such attribute, and the handler's
\* `except Exception` answers 500.
BuildResponse(queue_size) ==
    IF "calculate_rr_ratio" \in SignalDataAttrs
    THEN [status |-> 202, body |-> "queued", queue_position |-> queue_size]
    ELSE [status |-> 500, body |-> "error", queue_position |-> 0]

WebhookRespond(r) ==
    /\ reqPc[r] = "respond"
    /\ response' = [response EXCEPT ![r] = BuildResponse(Len(signalQueue))]
    /\ reqPc' = [reqPc EXCEPT ![r] = "done"]
    /\ reqSignal' = [reqSignal EXCEPT ![r] = NoSignal]   \* the handler's local is gone
    /\ UNCHANGED <<config, probe, extraVars, nonQueueVars, accepted, signalQueue, queueWorkerStarted, lockHolder, starterPc, wpc,
                   witem, putLog, dispatchLog>>

(***************************************************************************)
(* The accounts and the brokers' side.                                     *)
(***************************************************************************)
Accounts == {"ftmo_ctrader", "gft_tradelocker"}

\* self.brokers after connect(): the enabled brokers, in configuration order
EnabledBrokers == <<"ftmo_ctrader", "gft_tradelocker">>

\* an account id a request may name although no such broker is configured
UnknownBroker == "old_broker"

Symbols == {"EURUSD", "GOLD"}

Range(s) == {s[i] : i \in DOMAIN s}

\* TradeLocker's instrument list as loaded on connect: id -> name
tl_instruments_map == [i \in {"278", "310"} |-> IF i = "278" THEN "EURUSD.X" ELSE "XAUUSD"]

\* name -> id, "" when the name is not listed
tl_instruments_reverse_map(name) ==
    LET ids == {i \in DOMAIN tl_instruments_map : tl_instruments_map[i] = name}
    IN  IF ids = {} THEN "" ELSE CHOOSE i \in ids : TRUE

\* `a in b` on the strings the model uses
Contains(a, b) ==
    \/ a = b
    \/ <<a, b>> \in {<<"EURUSD", "EURUSD.X">>, <<"BTC", "BTCUSD">>, <<"AAPL", "AAPL.US">>}

(***************************************************************************)
(* config/__init__.py and brokers/base.py: symbol lookups ("" is None).    *)
(***************************************************************************)
get_instrument_symbol(cfg, tv_symbol, broker_id) ==
    LET instrument == Get(cfg.instruments, tv_symbol, <<>>)
    IN  Get(instrument, broker_id, "")

map_symbol(cfg, a, unified_symbol) ==
    Get(cfg.brokers[a].instruments_mapping, unified_symbol, "")

reverse_map_symbol(cfg, a, broker_symbol) ==
    LET mapping == cfg.brokers[a].instruments_mapping
        hits == {u \in DOMAIN mapping : mapping[u] = broker_symbol}
    IN  IF hits = {} THEN "" ELSE CHOOSE u \in hits : TRUE

\* TradeLockerBroker._get_instrument_id
get_instrument_id(cfg, a, symbol) ==
    LET mapping == cfg.brokers[a].instruments_mapping
    IN  IF symbol \in DOMAIN mapping
        THEN IF tl_instruments_reverse_map(mapping[symbol]) # ""
             THEN tl_instruments_reverse_map(mapping[symbol])
             ELSE mapping[symbol]
        ELSE IF tl_instruments_reverse_map(symbol) # ""
        THEN tl_instruments_reverse_map(symbol)
        ELSE IF symbol = "EURUSD"      \* f"{symbol}.X" is listed
        THEN tl_instruments_reverse_map("EURUSD.X")
        ELSE ""

\* the instrument id place_order sends; OrderRequest.broker_symbol is never
\* set by _place_on_broker, so each adapter resolves order.symbol itself
ResolveOrderSymbol(cfg, a, symbol) ==
    IF cfg.brokers[a].type = "ctrader"
    THEN map_symbol(cfg, a, symbol)
    ELSE get_instrument_id(cfg, a, symbol)

\* PendingOrder.symbol as each adapter reports a pending order
PendingSymbol(cfg, a, inst) ==
    IF cfg.brokers[a].type = "ctrader"
    THEN IF reverse_map_symbol(cfg, a, inst) # ""
         THEN reverse_map_symbol(cfg, a, inst) ELSE inst
    ELSE LET name == Get(tl_instruments_map, inst, "ID")
         IN  IF reverse_map_symbol(cfg, a, name) # ""
             THEN reverse_map_symbol(cfg, a, name) ELSE name

(***************************************************************************)
(* The adapters' answers.  AccountInfo: none is a None answer; margin_free *)
(* is known unless the broker sent null.                                   *)
(***************************************************************************)
NoAccountInfo ==
    [none |-> TRUE, balance |-> 0, equity |-> 0, mf_known |-> FALSE, margin_free |-> 0]

\* cTrader: equity = balance, margin_free is never filled in (its default 0.0)
CTraderInfos ==
    {[none |-> FALSE, balance |-> b, equity |-> b, mf_known |-> TRUE, margin_free |-> 0]
        : b \in {0, 1000}}

\* TradeLocker: the account state as the broker sends it
TradeLockerInfos ==
    {[none |-> FALSE, balance |-> 1000, equity |-> e, mf_known |-> k, margin_free |-> m]
        : e \in {0, 1000}, k \in {TRUE}, m \in {0, 299, 300}}
    \cup {[none |-> FALSE, balance |-> 1000, equity |-> 1000, mf_known |-> FALSE,
           margin_free |-> 0]}

\* get_account_info(): None when not connected, on a timeout or on an error
AccountInfoResults(cfg, a) ==
    {NoAccountInfo} \cup
    (IF cfg.brokers[a].type = "ctrader" THEN CTraderInfos ELSE TradeLockerInfos)

\* the methods an adapter object has (BaseBroker and both subclasses)
BrokerMethods ==
    {"connect", "disconnect", "is_connected", "get_account_info", "get_symbols",
     "get_symbol_info", "place_order", "cancel_order", "get_pending_orders",
     "get_positions", "map_symbol", "reverse_map_symbol", "calculate_lot_size"}

\* get_pending_orders(): the symbols of the listed orders, [] on any failure
ListedSymbols(cfg, a, pending, listing_ok) ==
    IF listing_ok
    THEN [i \in 1..Len(pending) |-> PendingSymbol(cfg, a, pending[i].inst)]
    ELSE <<>>

(***************************************************************************)
(* services/order_placer.py: check_filters.                                *)
(***************************************************************************)
\* margin_percent < limits.min_margin_percent, without the division
MarginBelow_inclusive(info, min_margin_percent) ==
    IF info.mf_known /\ info.margin_free > 0
    THEN info.margin_free * 100 <= min_margin_percent * info.equity
    ELSE 100 <= min_margin_percent

MarginBelow(info, min_margin_percent) ==
    IF info.mf_known /\ info.margin_free > 0
    THEN info.margin_free * 100 < min_margin_percent * info.equity
    ELSE 100 < min_margin_percent

PendingCapReached_strict(n, cap) == n > cap

\* len(pending) >= limits.max_pending_orders
PendingCapReached(n, cap) == n >= cap

\* the FilterResult values with which check_filters blocks an account
BlockingResults ==
    {"instrument_not_available", "connection_error", "margin_insufficient",
     "max_positions_reached", "max_pending_orders", "duplicate_order"}

check_filters(cfg, a, symbol, info, npositions, listed) ==
    IF get_instrument_symbol(cfg, symbol, a) = ""
    THEN "instrument_not_available"
    ELSE IF info.none
    THEN "connection_error"
    ELSE IF info.equity > 0 /\ MarginBelow(info, cfg.min_margin_percent)
    THEN "margin_insufficient"
    ELSE IF /\ "get_open_positions" \in BrokerMethods    \* else AttributeError, swallowed
            /\ npositions > 0
            /\ npositions >= cfg.max_open_positions
    THEN "max_positions_reached"
    ELSE IF Len(listed) > 0 /\ PendingCapReached(Len(listed), cfg.max_pending_orders)
    THEN "max_pending_orders"
    ELSE IF /\ Len(listed) > 0
            /\ cfg.prevent_duplicate_orders
            /\ \E i \in 1..Len(listed) :
                  listed[i] # "" /\ Contains(Upper(symbol), Upper(listed[i]))
    THEN "duplicate_order"
    ELSE "passed"

(***************************************************************************)
(* services/order_placer.py: _place_on_broker.                             *)
(***************************************************************************)
\* How the calls of _place_on_broker are answered, named by the first answer
\* that ends it: get_account_info gives None; calculate_position_size raises
\* (a pip_size of 0 in the catalog divides by zero) or gives lots <= 0;
\* otherwise place_order's request is accepted, rejected, or times out with
\* the order lost or placed.
PlacementAnswers ==
    {"info_none", "size_raise", "size_zero",
     "accepted", "rejected", "timeout_lost", "timeout_placed"}

\* [outcome, raised, fault, sent, placed]: the PlacementResult, whether an
\* exception left _place_on_broker, whether the adapter failed, whether a
\* request was sent and whether the broker now holds the order; `called`:
\* broker.place_order was called; `unmapped`: it found no instrument for the
\* order's symbol
place_on_broker(cfg, a, symbol, answer) ==
    LET res(o, r, f, s, p) ==
            [outcome |-> o, raised |-> r, fault |-> f, sent |-> s, placed |-> p,
             called |-> FALSE, unmapped |-> FALSE]
        called(x) == [x EXCEPT !.called = TRUE]
    IN  IF answer = "info_none" THEN res("error", FALSE, TRUE, FALSE, FALSE)
        ELSE IF answer = "size_raise" THEN res("error", TRUE, TRUE, FALSE, FALSE)
        ELSE IF answer = "size_zero" THEN res("error", FALSE, FALSE, FALSE, FALSE)
        ELSE IF ResolveOrderSymbol(cfg, a, symbol) = ""
        THEN [called(res("error", FALSE, TRUE, FALSE, FALSE)) EXCEPT !.unmapped = TRUE]
        ELSE IF answer = "accepted" THEN called(res("submitted", FALSE, FALSE, TRUE, TRUE))
        ELSE called(res("error", FALSE, TRUE, TRUE, answer = "timeout_placed"))

\* without the try/except around _place_on_broker
Guarded_absent(res) == res

\* place_signal's `try: ... except Exception as e:` turns an exception into
\* the account's error result
Guarded(res) ==
    IF res.raised THEN [res EXCEPT !.raised = FALSE, !.outcome = "error"] ELSE res

(***************************************************************************)
(* services/order_placer.py: place_signal.                                 *)
(***************************************************************************)
AllTargets == Accounts \cup {UnknownBroker}

\* the `brokers` argument: None, or the list a request names
BrokerArgs == {<<>>, <<"ftmo_ctrader", UnknownBroker>>}

\* `target_brokers = brokers or list(self.brokers.keys())`, then reordered
\* and restricted by execution.broker_order when that is configured
TargetBrokers(cfg, brokers) ==
    LET t == IF brokers # <<>> THEN brokers ELSE EnabledBrokers
    IN  IF cfg.broker_order # <<>>
        THEN SelectSeq(cfg.broker_order, LAMBDA b : b \in Range(t))
        ELSE t

\* NotificationService.notify(notification) starts by reading
\* notification.type: a Notification has it, a str has not (AttributeError)
NotifyRaises(kind) == kind # "Notification"

NoObs ==
    [account |-> "", idx |-> 0, none |-> TRUE, equity |-> 0,
     mf_known |-> FALSE, margin_free |-> 0, listing_ok |-> FALSE, npending |-> 0,
     npositions |-> 0, had_order |-> FALSE, filter |-> "none", outcome |-> "none",
     sent |-> FALSE, fault |-> FALSE, delay_ms |-> 0, called |-> FALSE,
     unmapped |-> FALSE]

\* the order the broker holds once it accepted a request (SpecPlace follows
\* neither its id nor its age)
NewOrder(inst) == [order_id |-> 0, inst |-> inst, created_known |-> TRUE, created |-> 0]

\* the answers the broker can give: a full account accepts no order
PlacementAnswersFor(a) ==
    IF Len(brokerPending[a]) < MaxBrokerPending
    THEN PlacementAnswers ELSE PlacementAnswers \ {"accepted", "timeout_placed"}

\* random.randint(a, b): the ends and the middle of a..b
RandInt(a, b) == {a, (a + b) \div 2, b}

\* a dispatcher that never sleeps
SleepsBefore_never(cfg, i) == {0}

\* `if i > 0 and delay_config.enabled: delay_ms = random.randint(min_ms, max_ms)`
\* and `await asyncio.sleep(delay_ms / 1000)`: the sleeps possible before the
\* i-th target (the first is 1)
SleepsBefore(cfg, i) ==
    IF i > 1 /\ cfg.delay_between_brokers.enabled
    THEN RandInt(cfg.delay_between_brokers.min_ms, cfg.delay_between_brokers.max_ms)
    ELSE {0}

PlaceStart ==
    /\ placeStatus # "running"
    /\ \E symbol \in Symbols, brokers \in BrokerArgs :
          /\ sigSymbol' = symbol
          /\ targets' = TargetBrokers(config, brokers)
    /\ placeStatus' = "running"
    /\ placeIdx' = 1
    /\ results' = [a \in AllTargets |-> "none"]
    /\ faulted' = {}
    /\ obs' = NoObs
    /\ UNCHANGED <<config, probe, extraVars, queueVars, sizerVars, reapVars, brokerVars>>

\* the iteration for an account id that is not among self.brokers
PlaceNotFound(a) ==
    /\ results' = [results EXCEPT ![a] = "not_found"]
    /\ placeIdx' = placeIdx + 1
    /\ obs' = [NoObs EXCEPT !.account = a, !.idx = placeIdx, !.outcome = "not_found"]
    /\ UNCHANGED <<placeStatus, brokerVars, faulted>>

\* the filter blocked the account: the result is recorded, then the skip
\* notification is sent with a plain string
PlaceFiltered(a, fr, seen) ==
    /\ results' = [results EXCEPT ![a] = fr]
    /\ obs' = [seen EXCEPT !.outcome = "filtered"]
    /\ IF config.on_filter_skip /\ NotifyRaises("str")
       THEN placeStatus' = "raised" /\ UNCHANGED placeIdx
       ELSE placeIdx' = placeIdx + 1 /\ UNCHANGED placeStatus
    /\ UNCHANGED <<brokerVars, faulted>>

\* the filter passed: `try: result = await self._place_on_broker(...)`
PlaceSubmit(a, seen) ==
    \E answer \in PlacementAnswersFor(a) :
        LET res == Guarded(place_on_broker(config, a, sigSymbol, answer))
        IN  /\ results' = [results EXCEPT ![a] = res.outcome]
            /\ obs' = [seen EXCEPT !.outcome = res.outcome,
                                   !.sent = res.sent, !.fault = res.fault,
                                   !.called = res.called, !.unmapped = res.unmapped]
            /\ faulted' = IF res.fault THEN faulted \cup {a} ELSE faulted
            /\ brokerPending' =
                  IF res.placed
                  THEN [brokerPending EXCEPT ![a] = Append(@,
                           NewOrder(ResolveOrderSymbol(config, a, sigSymbol)))]
                  ELSE brokerPending
            /\ IF res.raised
               THEN placeStatus' = "raised" /\ UNCHANGED placeIdx
               ELSE placeIdx' = placeIdx + 1 /\ UNCHANGED placeStatus

\* one iteration of `for i, broker_id in enumerate(target_brokers)`; the
\* broker answers get_account_info, tells how many positions are open and
\* lists the pending orders or fails to
PlaceAccount ==
    /\ placeStatus = "running"
    /\ placeIdx <= Len(targets)
    /\ LET a == targets[placeIdx]
       IN  IF a \notin Range(EnabledBrokers)
           THEN PlaceNotFound(a)
           ELSE \E info \in AccountInfoResults(config, a), listing_ok \in BOOLEAN,
                   npositions \in 0..MaxPositions,
                   delay_ms \in SleepsBefore(config, placeIdx) :
                LET listed == ListedSymbols(config, a, brokerPending[a], listing_ok)
                    fr == check_filters(config, a, sigSymbol, info, npositions, listed)
                    asked == fr # "instrument_not_available"
                    got == asked /\ ~info.none
                    seen == [NoObs EXCEPT
                               !.account = a, !.idx = placeIdx,
                               !.delay_ms = delay_ms,
                               !.none = ~got,
                               !.equity = IF got THEN info.equity ELSE 0,
                               !.mf_known = IF got THEN info.mf_known ELSE FALSE,
                               !.margin_free = IF got THEN info.margin_free ELSE 0,
                               !.listing_ok = got /\ listing_ok,
                               !.npending = IF got THEN Len(listed) ELSE 0,
                               !.npositions = IF got THEN npositions ELSE 0,
                               !.had_order =
                                   \E i \in 1..Len(brokerPending[a]) :
                                       brokerPending[a][i].inst =
                                           ResolveOrderSymbol(config, a, sigSymbol),
                               !.filter = fr]
                IN  IF fr # "passed"
                    THEN PlaceFiltered(a, fr, seen)
                    ELSE PlaceSubmit(a, seen)
    /\ UNCHANGED <<config, probe, extraVars, queueVars, sizerVars, reapVars, sigSymbol, targets>>

\* `return results`
PlaceReturn ==
    /\ placeStatus = "running"
    /\ placeIdx > Len(targets)
    /\ placeStatus' = "returned"
    /\ UNCHANGED <<config, probe, extraVars, queueVars, sizerVars, reapVars, brokerVars, sigSymbol, targets, placeIdx, results,
                   faulted, obs>>

(***************************************************************************)
(* What happens at the brokers outside the program.                        *)
(***************************************************************************)
RemoveAt(s, i) == SubSeq(s, 1, i - 1) \o SubSeq(s, i + 1, Len(s))

\* a pending order is filled or withdrawn at the broker
BrokerFill(a) ==
    /\ \E i \in 1..Len(brokerPending[a]) :
          brokerPending' = [brokerPending EXCEPT ![a] = RemoveAt(@, i)]
    /\ UNCHANGED <<config, probe, extraVars, queueVars, sizerVars, reapVars, placeVars>>

(***************************************************************************)
(* services/order_cleaner.py: CandleCalculator.  Instants are minutes      *)
(* since the Unix epoch, 1970-01-01 00:00 UTC, a Thursday.                 *)
(***************************************************************************)
CANDLE_4H_MINUTES == 240

SESSION_24X7 == "24x7"
SESSION_24X5 == "24x5"
SESSION_RTH == "RTH"

\* the attributes a dict object has
DictAttrs ==
    {"get", "keys", "values", "items", "pop", "update", "setdefault", "copy", "clear"}

\* [raised, phase, session_model].  An instrument found in the catalog is a
\* dict: reading instrument_config.candle_phase_minutes raises
\* AttributeError.  Otherwise the symbol's name decides.
get_candle_params(cfg, symbol) ==
    LET params(p, m) == [raised |-> FALSE, phase |-> p, session_model |-> m]
    IN  IF symbol \in DOMAIN cfg.instruments
        THEN IF {"candle_phase_minutes", "session_model"} \subseteq DictAttrs
             THEN params(Get(cfg.instruments[symbol], "candle_phase_minutes", 0),
                         Get(cfg.instruments[symbol], "session_model", ""))
             ELSE [raised |-> TRUE, phase |-> 0, session_model |-> ""]
        ELSE IF \E c \in {"BTC", "ETH", "SOL", "BNB", "LTC", "XRP", "ADA", "DOGE"} :
                   Contains(c, Upper(symbol))
        THEN params(0, SESSION_24X7)
        ELSE IF \E s \in {"AAPL", "MSFT", "NVDA", "TSLA", "AMZN", "GOOGL", "JPM", "V."} :
                   Contains(s, Upper(symbol))
        THEN params(150, SESSION_RTH)
        ELSE params(-120, SESSION_24X5)

\* datetime.weekday(): 0 is Monday
Weekday(t) == ((t \div 1440) + 3) % 7

\* every bar counts, the weekend's too
is_market_open_weekend(t, session_model) == TRUE

is_market_open(t, session_model) ==
    LET day_of_week == Weekday(t)
        hour_utc == (t % 1440) \div 60
        time_minutes == t % 1440
    IN  IF session_model = SESSION_24X7 THEN TRUE
        ELSE IF session_model = SESSION_24X5
        THEN ~ \/ (day_of_week = 4 /\ hour_utc >= 22)
               \/ day_of_week = 5
               \/ (day_of_week = 6 /\ hour_utc < 22)
        ELSE IF session_model = SESSION_RTH
        THEN day_of_week < 5 /\ 870 <= time_minutes /\ time_minutes <= 1260
        ELSE TRUE

\* bars counted from the epoch, the phase ignored
candle_index_unphased(t, phase_minutes) == t \div CANDLE_4H_MINUTES

candle_index(t, phase_minutes) == (t - phase_minutes) \div CANDLE_4H_MINUTES

RECURSIVE ClosedLoop(_, _, _, _, _, _)
\* the `while current_idx < now_idx` loop of count_closed_candles
ClosedLoop(current_idx, now_idx, created_idx, phase, session_model, closed_count) ==
    IF current_idx < now_idx
    THEN LET candle_start == current_idx * CANDLE_4H_MINUTES + phase
             counted == IF is_market_open(candle_start, session_model)
                        THEN closed_count + 1 ELSE closed_count
         IN  IF current_idx + 1 > created_idx + 1000
             THEN counted
             ELSE ClosedLoop(current_idx + 1, now_idx, created_idx, phase,
                             session_model, counted)
    ELSE closed_count

\* count_closed_candles once the parameters are known
ClosedCandles(created_time, now_time, phase, session_model) ==
    LET created_idx == candle_index(created_time, phase)
        now_idx == candle_index(now_time, phase)
    IN  IF session_model = SESSION_24X7
        THEN IF now_idx - created_idx > 0 THEN now_idx - created_idx ELSE 0
        ELSE ClosedLoop(created_idx, now_idx, created_idx, phase, session_model, 0)

\* [raised, count]
count_closed_candles(cfg, created_time, now_time, symbol) ==
    LET p == get_candle_params(cfg, symbol)
    IN  IF p.raised THEN [raised |-> TRUE, count |-> 0]
        ELSE [raised |-> FALSE,
              count |-> ClosedCandles(created_time, now_time, p.phase, p.session_model)]

NoCount == [done |-> FALSE, raised |-> FALSE, same |-> 0, next |-> 0]

\* count_closed_candles(t, t, symbol, config) and
\* count_closed_candles(t, t + one bar, symbol, config)
CountCandles ==
    /\ ~candOut.done
    /\ LET same == count_closed_candles(config, candIn.t, candIn.t, candIn.symbol)
           next == count_closed_candles(config, candIn.t, candIn.t + CANDLE_4H_MINUTES,
                                        candIn.symbol)
       IN  candOut' = [done |-> TRUE, raised |-> same.raised \/ next.raised,
                       same |-> same.count, next |-> next.count]
    /\ UNCHANGED <<candleFrame, candIn>>

(***************************************************************************)
(* services/order_cleaner.py: OrderCleaner.                                *)
(***************************************************************************)
\* `is_expired = closed_candles >= timeout_candles`
Expired(closed_candles, timeout_candles) == closed_candles >= timeout_candles

\* [raised, is_expired, closed]
check_order_expired(cfg, order, now_time) ==
    IF ~order.created_known
    THEN [raised |-> FALSE, is_expired |-> FALSE, closed |-> 0]
    ELSE LET c == count_closed_candles(cfg, order.created, now_time, order.symbol)
         IN  [raised |-> c.raised,
              is_expired |-> ~c.raised /\ Expired(c.count, cfg.order_timeout_candles),
              closed |-> c.count]

\* the PendingOrder an adapter builds from an order the broker holds
ReportedOrder(cfg, a, o) ==
    [order_id |-> o.order_id, symbol |-> PendingSymbol(cfg, a, o.inst),
     created_known |-> o.created_known, created |-> o.created]

\* cancel_order's OrderResult: success, or a failure or timeout
CancelAnswers == {"ok", "failed"}

\* no cycle came before
NoCycle == [ran |-> FALSE, steady |-> FALSE, cancelled |-> FALSE]

\* the books with order `id` of account a withdrawn
Withdrawn(book, a, id) ==
    [book EXCEPT ![a] = SelectSeq(@, LAMBDA o : o.order_id # id)]

\* the loop over the orders stops after its first order
LoopDone_first(idx, orders) == TRUE

\* `for order in orders` has no order left after position idx
LoopDone(idx, orders) == idx = Len(orders)

\* cleanup_all begins a cycle.  The cycle before was steady when it ran to
\* its end and every broker call in it succeeded.
CleanStart ==
    /\ cleanPc \in {"idle", "done"}
    /\ cleanPc' = "list"
    /\ cleanB' = 1
    /\ cleanOrders' = <<>>
    /\ cleanIdx' = 1
    /\ listedLog' = {}
    /\ cancelLog' = {}
    /\ cleanErrors' = {}
    /\ prevCycle' = IF cleanPc = "done"
                    THEN [ran |-> TRUE, steady |-> cycleClean,
                          cancelled |-> cancelLog # {}]
                    ELSE NoCycle
    /\ cycleClean' = TRUE
    /\ UNCHANGED <<config, probe, extraVars, queueVars, sizerVars, brokerVars, placeVars, now>>

\* cleanup_broker: `orders = await broker.get_pending_orders()`, which is []
\* on any failure; with no orders cleanup_broker returns at once
CleanList ==
    /\ cleanPc = "list"
    /\ cleanB <= Len(EnabledBrokers)
    /\ LET a == EnabledBrokers[cleanB]
       IN  \E listing_ok \in BOOLEAN :
             LET orders == IF listing_ok
                           THEN [i \in 1..Len(brokerPending[a]) |->
                                    ReportedOrder(config, a, brokerPending[a][i])]
                           ELSE <<>>
             IN  /\ listedLog' = listedLog \cup {<<a, orders[i]>> : i \in 1..Len(orders)}
                 /\ cleanOrders' = orders
                 /\ cleanIdx' = 1
                 /\ cycleClean' = (cycleClean /\ listing_ok)
                 /\ IF orders = <<>>
                    THEN cleanB' = cleanB + 1 /\ UNCHANGED cleanPc
                    ELSE cleanPc' = "orders" /\ UNCHANGED cleanB
    /\ UNCHANGED <<config, probe, extraVars, queueVars, sizerVars, brokerVars, placeVars, now, cancelLog, cleanErrors,
                   prevCycle>>

\* one iteration of `for order in orders`.  An exception leaves the loop
\* for the `except Exception` at the end of cleanup_broker.  The display of
\* the timeout instant calls get_candle_params again, after
\* check_order_expired already did.
CleanOrder ==
    /\ cleanPc = "orders"
    /\ LET a == EnabledBrokers[cleanB]
           order == cleanOrders[cleanIdx]
           chk == check_order_expired(config, order, now)
           last == LoopDone(cleanIdx, cleanOrders)
       IN  IF chk.raised
           THEN /\ cleanErrors' = cleanErrors \cup {a}
                /\ cleanB' = cleanB + 1
                /\ cleanPc' = "list"
                /\ UNCHANGED <<cleanIdx, cancelLog, brokerVars, cycleClean>>
           ELSE /\ IF chk.is_expired
                   THEN \E answer \in CancelAnswers :
                          /\ cancelLog' = cancelLog \cup {<<a, order.order_id>>}
                          /\ cycleClean' = (cycleClean /\ answer = "ok")
                          /\ brokerPending' =
                                IF answer = "ok"
                                THEN Withdrawn(brokerPending, a, order.order_id)
                                ELSE brokerPending
                   ELSE UNCHANGED <<cancelLog, brokerVars, cycleClean>>
                /\ IF last
                   THEN cleanB' = cleanB + 1 /\ cleanPc' = "list" /\ UNCHANGED cleanIdx
                   ELSE cleanIdx' = cleanIdx + 1 /\ UNCHANGED <<cleanB, cleanPc>>
                /\ UNCHANGED cleanErrors
    /\ UNCHANGED <<config, probe, extraVars, queueVars, sizerVars, placeVars, now, cleanOrders, listedLog, prevCycle>>

\* cleanup_all returns the statistics
CleanReturn ==
    /\ cleanPc = "list"
    /\ cleanB > Len(EnabledBrokers)
    /\ cleanPc' = "done"
    /\ UNCHANGED <<config, probe, extraVars, queueVars, sizerVars, brokerVars, placeVars, now, cleanB, cleanOrders,
                   cleanIdx, listedLog, cancelLog, cleanErrors, cycleClean,
                   prevCycle>>

(***************************************************************************)
(* services/position_sizer.py.  A float is modelled by the exact fraction  *)
(* [n, d] in lowest terms, d > 0.                                          *)
(***************************************************************************)
Abs(x) == IF x < 0 THEN -x ELSE x

RECURSIVE Gcd(_, _)
Gcd(a, b) == IF b = 0 THEN a ELSE Gcd(b, a % b)

Frac(n, d) ==
    IF n = 0 THEN [n |-> 0, d |-> 1]
    ELSE LET g == Gcd(Abs(n), d) IN [n |-> n \div g, d |-> d \div g]

Whole(k) == [n |-> k, d |-> 1]

\* x * y
FMul(x, y) ==
    IF x.n = 0 \/ y.n = 0 THEN Whole(0)
    ELSE LET g1 == Gcd(Abs(x.n), y.d)
             g2 == Gcd(Abs(y.n), x.d)
         IN  [n |-> (x.n \div g1) * (y.n \div g2), d |-> (x.d \div g2) * (y.d \div g1)]

\* x / y, for y # 0
FDiv(x, y) ==
    FMul(x, IF y.n < 0 THEN [n |-> -y.d, d |-> -y.n] ELSE [n |-> y.d, d |-> y.n])

\* x - y
FSub(x, y) ==
    LET g == Gcd(x.d, y.d)
    IN  Frac(x.n * (y.d \div g) - y.n * (x.d \div g), (x.d \div g) * y.d)

FAdd(x, y) == FSub(x, [n |-> -y.n, d |-> y.d])

FAbs(x) == [n |-> Abs(x.n), d |-> x.d]

RECURSIVE PosLess(_, _, _, _)
\* a/b < c/d for a, c >= 0 and b, d > 0
PosLess(a, b, c, d) ==
    IF a \div b # c \div d THEN a \div b < c \div d
    ELSE IF c % d = 0 THEN FALSE
    ELSE IF a % b = 0 THEN TRUE
    ELSE PosLess(d, c % d, b, a % b)

\* x < y
FLess(x, y) ==
    IF x.n < 0 /\ y.n >= 0 THEN TRUE
    ELSE IF x.n >= 0 /\ y.n < 0 THEN FALSE
    ELSE IF x.n >= 0 THEN PosLess(x.n, x.d, y.n, y.d)
    ELSE PosLess(-y.n, y.d, -x.n, x.d)

\* x <= y
FLeq(x, y) == ~FLess(y, x)

FMax(x, y) == IF FLess(x, y) THEN y ELSE x
FMin(x, y) == IF FLess(y, x) THEN y ELSE x

\* always the next whole number above
round_up(x) == IF x.n % x.d = 0 THEN x.n \div x.d ELSE (x.n \div x.d) + 1

\* Python's round(x): to the nearest whole number, a tie to the even one
round(x) ==
    LET q == x.n \div x.d
        r == x.n % x.d
    IN  IF 2 * r < x.d THEN q
        ELSE IF 2 * r > x.d THEN q + 1
        ELSE IF q % 2 = 0 THEN q ELSE q + 1

\* PositionSizer.DEFAULT_PIP_VALUES
DEFAULT_PIP_VALUES ==
    [JPY |-> Frac(13, 2), CHF |-> Whole(11), GBP |-> Frac(25, 2), CAD |-> Frac(36, 5),
     AUD |-> Frac(13, 2), NZD |-> Frac(59, 10), EUR |-> Frac(54, 5), ZAR |-> Frac(11, 20),
     MXN |-> Frac(1, 2), CNH |-> Frac(7, 5), SGD |-> Frac(37, 5), NOK |-> Frac(9, 10),
     HUF |-> Frac(13, 500), CZK |-> Frac(21, 50)]

MAX_PIP_VALUE_DEVIATION == Frac(1, 2)

\* a value that was not given: None
NoValue == [given |-> FALSE, v |-> Whole(0)]
Given(x) == [given |-> TRUE, v |-> x]

\* PositionSizer.__init__: the instrument's configuration, defaults applied;
\* quote_currency "" stands for None
SizerConfig(pip_size, pip_value_per_lot, contract_size, quote_currency) ==
    [pip_size |-> pip_size, pip_value_per_lot |-> pip_value_per_lot,
     contract_size |-> contract_size, quote_currency |-> quote_currency]

\* the table default for the quote currency, scaled for a non-standard pip
\* size; not given when the currency is not in the table
default_pip_value(self) ==
    IF self.quote_currency # "" /\ self.quote_currency \in DOMAIN DEFAULT_PIP_VALUES
    THEN LET d == DEFAULT_PIP_VALUES[self.quote_currency]
         IN  IF FLeq(Frac(1, 100), self.pip_size) /\ self.quote_currency = "JPY"
             THEN Given(d)
             ELSE IF FLeq(Frac(1, 1000), self.pip_size) /\ self.quote_currency # "JPY"
             THEN Given(FMul(d, FDiv(self.pip_size, Frac(1, 10000))))
             ELSE Given(d)
    ELSE NoValue

\* `contract_size * pip_size`
base_pip_value(self) == FMul(Whole(self.contract_size), self.pip_size)

\* the dynamic estimate, from the explicit rate or else from a price above 1
calculated_pip_value(self, current_price, quote_to_usd_rate) ==
    IF quote_to_usd_rate.given
    THEN Given(FMul(base_pip_value(self), quote_to_usd_rate.v))
    ELSE IF FLess(Whole(1), current_price)
    THEN Given(FDiv(base_pip_value(self), current_price))
    ELSE NoValue

\* `abs(calculated_pip_value - default_pip_value) / default_pip_value`
Deviation(calculated, default) == FDiv(FAbs(FSub(calculated, default)), default)

\* the sanity gate never closes
DeviationTooLarge_never(deviation) == FALSE

\* the sanity gate always closes
DeviationTooLarge_always(deviation) == TRUE

\* `deviation > self.MAX_PIP_VALUE_DEVIATION`
DeviationTooLarge(deviation) == FLess(MAX_PIP_VALUE_DEVIATION, deviation)

\* PositionSizer._get_pip_value
get_pip_value(self, current_price, quote_to_usd_rate) ==
    LET default == default_pip_value(self)
        calculated == calculated_pip_value(self, current_price, quote_to_usd_rate)
    IN  IF self.pip_value_per_lot.given THEN self.pip_value_per_lot.v
        ELSE IF self.quote_currency = "" \/ self.quote_currency = "USD"
        THEN base_pip_value(self)
        ELSE IF calculated.given /\ default.given
        THEN IF DeviationTooLarge(Deviation(calculated.v, default.v))
             THEN default.v ELSE calculated.v
        ELSE IF default.given THEN default.v
        ELSE IF calculated.given THEN calculated.v
        ELSE base_pip_value(self)

\* no call of the sizer yet
NoSizerInput ==
    [config |-> SizerConfig(Frac(1, 10000), NoValue, 100000, ""),
     entry_price |-> Whole(0), sl_price |-> Whole(0), account_value |-> Whole(0),
     risk_percent |-> Whole(0), current_price |-> NoValue, quote_to_usd_rate |-> NoValue,
     min_lot |-> Frac(1, 100), max_lot |-> Whole(100), lot_step |-> Frac(1, 100)]

\* no result yet
NoSize ==
    [done |-> FALSE, lots |-> Whole(0), risk_amount |-> Whole(0), pip_value |-> Whole(0),
     sl_pips |-> Whole(0), details |-> ""]

PositionSize(lots, risk_amount, pip_value, sl_pips, details) ==
    [done |-> TRUE, lots |-> lots, risk_amount |-> risk_amount, pip_value |-> pip_value,
     sl_pips |-> sl_pips, details |-> details]

\* `risk_amount = account_value * (risk_percent / 100)`
RiskAmount(a) == FMul(a.account_value, FDiv(a.risk_percent, Whole(100)))

\* `sl_pips = abs(entry_price - sl_price) / self.pip_size`
SlPips(self, a) == FDiv(FAbs(FSub(a.entry_price, a.sl_price)), self.pip_size)

\* `current_price or entry_price`
PriceUsed(a) ==
    IF a.current_price.given /\ a.current_price.v.n # 0
    THEN a.current_price.v ELSE a.entry_price

\* `raw_lots = risk_amount / (sl_pips * pip_value_per_lot)`
RawLots(self, a) ==
    FDiv(RiskAmount(a),
         FMul(SlPips(self, a), get_pip_value(self, PriceUsed(a), a.quote_to_usd_rate)))

\* PositionSizer.calculate
calculate(self, a) ==
    LET risk_amount == RiskAmount(a)
        sl_pips == SlPips(self, a)
        pip_value_per_lot == get_pip_value(self, PriceUsed(a), a.quote_to_usd_rate)
        raw_lots == RawLots(self, a)
        stepped == FMul(Whole(round(FDiv(raw_lots, a.lot_step))), a.lot_step)
        lots == FMax(a.min_lot, FMin(stepped, a.max_lot))
    IN  IF sl_pips.n = 0
        THEN PositionSize(Whole(0), risk_amount, Whole(0), Whole(0),
                          "Error: SL distance is zero")
        ELSE IF FLeq(pip_value_per_lot, Whole(0))
        THEN PositionSize(Whole(0), risk_amount, Whole(0), sl_pips,
                          "Error: Could not determine pip value")
        ELSE PositionSize(lots, FMul(FMul(lots, sl_pips), pip_value_per_lot),
                          FMul(lots, pip_value_per_lot), sl_pips, "ok")

\* calculate_position_size(instrument_config, ...) returns
SizerCalculate ==
    /\ ~sizeOut.done
    /\ sizeOut' = calculate(sizeIn.config, sizeIn)
    /\ UNCHANGED <<config, probe, extraVars, queueVars, brokerVars, placeVars, reapVars, sizeIn,
                   sizePip>>

\* _get_pip_value(current_price or entry_price, quote_to_usd_rate) returns
SizerGetPipValue ==
    /\ ~sizePip.given
    /\ sizePip' = Given(get_pip_value(sizeIn.config, PriceUsed(sizeIn),
                                      sizeIn.quote_to_usd_rate))
    /\ UNCHANGED <<config, probe, extraVars, queueVars, brokerVars, placeVars, reapVars, sizeIn,
                   sizeOut>>

(***************************************************************************)
(* webhook/server.py: worker(), the loop of the queue worker, with the     *)
(* wall clock.  Times are in milliseconds.                                 *)
(***************************************************************************)
\* time.time() when the worker starts: instants after the epoch
Boots == {1000}

\* the signals put during a run, and the instant after which the run stays idle
MaxSignals == 2
Horizon == 7000

\* `delay_config.min_ms if delay_config.enabled else 1000`
min_delay_ms(cfg) ==
    IF cfg.delay_between_brokers.enabled THEN cfg.delay_between_brokers.min_ms ELSE 1000

\* `delay_config.max_ms if delay_config.enabled else 3000`
max_delay_ms(cfg) ==
    IF cfg.delay_between_brokers.enabled THEN cfg.delay_between_brokers.max_ms ELSE 3000

\* the worker that never waits
WaitMs_none(elapsed_ms, required_delay_ms) == 0

\* `if elapsed_ms < required_delay_ms: wait_ms = required_delay_ms - elapsed_ms`
WaitMs(elapsed_ms, required_delay_ms) ==
    IF elapsed_ms < required_delay_ms THEN required_delay_ms - elapsed_ms ELSE 0

\* a worker whose thread ends with the exception
Caught_uncaught(raised) == ~raised

\* `except Exception as e: logging.error(...)` around the dispatch
Caught(raised) == TRUE

NoJob == [rid |-> 0, raises |-> FALSE]

\* how long place_signal runs, and how long the queue stays empty
Durations == {0, 800}
Gaps == {5000}

\* queue_signal(): an item is put; whether its dispatch will raise is the
\* signal's and the brokers' matter
SignalPut ==
    /\ nput < MaxSignals
    /\ \E raises \in BOOLEAN :
          jobs' = Append(jobs, [rid |-> nput + 1, raises |-> raises])
    /\ nput' = nput + 1
    /\ UNCHANGED <<paceFrame, clock, last_signal_time, wstep, job, runs>>

\* time passes while the worker is blocked in `_signal_queue.get(timeout=60)`
TimePasses ==
    /\ wstep = "get"
    /\ \E gap \in Gaps :
          /\ clock + gap <= Horizon
          /\ clock' = clock + gap
    /\ UNCHANGED <<paceFrame, last_signal_time, jobs, nput, wstep, job, runs>>

\* `item = _signal_queue.get(timeout=60)`
WorkerTake ==
    /\ wstep = "get"
    /\ jobs # <<>>
    /\ job' = Head(jobs)
    /\ jobs' = Tail(jobs)
    /\ wstep' = "wait"
    /\ UNCHANGED <<paceFrame, clock, last_signal_time, nput, runs>>

\* random.randint(a, b) raises ValueError on an empty range
RandIntRaises(a, b) == a > b

\* `if last_signal_time > 0:` the delay since the last signal, then the
\* dispatch begins.  A ValueError of random.randint is caught by the loop's
\* outer `except Exception`: the item is gone and the loop starts over
WorkerWait ==
    /\ wstep = "wait"
    /\ IF last_signal_time > 0 /\ RandIntRaises(min_delay_ms(config), max_delay_ms(config))
       THEN /\ wstep' = "get"
            /\ job' = NoJob
            /\ UNCHANGED <<clock, runs>>
       ELSE /\ IF last_signal_time > 0
               THEN \E required_delay_ms \in
                          RandInt(min_delay_ms(config), max_delay_ms(config)) :
                       clock' = clock + WaitMs(clock - last_signal_time, required_delay_ms)
               ELSE clock' = clock
            /\ runs' = Append(runs, [rid |-> job.rid, start |-> clock', end |-> 0,
                                     raised |-> FALSE])
            /\ wstep' = "run"
            /\ UNCHANGED job
    /\ UNCHANGED <<paceFrame, last_signal_time, jobs, nput>>

\* `results = loop.run_until_complete(placer.place_signal(signal, brokers))`
\* returns or raises
WorkerRun ==
    /\ wstep = "run"
    /\ \E d \in Durations : clock' = clock + d
    /\ runs' = [runs EXCEPT ![Len(runs)].raised = job.raises]
    /\ wstep' = IF Caught(job.raises) THEN "finally" ELSE "dead"
    /\ UNCHANGED <<paceFrame, last_signal_time, jobs, nput, job>>

\* `finally: last_signal_time = time.time(); _signal_queue.task_done()`
WorkerFinally ==
    /\ wstep = "finally"
    /\ last_signal_time' = clock
    /\ runs' = [runs EXCEPT ![Len(runs)].end = clock]
    /\ job' = NoJob
    /\ wstep' = "get"
    /\ UNCHANGED <<paceFrame, clock, jobs, nput>>

(***************************************************************************)
(* brokers/ctrader.py and brokers/tradelocker.py: the operations of the    *)
(* adapters as their caller sees them.                                     *)
(***************************************************************************)
AdapterTypes == {"ctrader", "tradelocker"}

Operations ==
    {"connect", "get_account_info", "place_order", "cancel_order",
     "get_pending_orders", "get_positions"}

\* int(x) succeeds
IsNumeric(x) == x \in {"1", "2", "278", "310", "7001"}

\* the broker symbols place_order is given (after the adapter's lookup; ""
\* when the symbol is not mapped) and the order ids cancel_order is given
Handles == {"1", "278", "EURUSD.X", ""}
OrderIds == {"7001", "ord-7"}

\* the arguments an operation is called with
ArgsOf(op) ==
    IF op = "place_order" THEN Handles
    ELSE IF op = "cancel_order" THEN OrderIds
    ELSE {""}

\* CTraderBroker: "typed" when the operation returns its result, "raises"
\* when an exception leaves it.  cancel_order converts `int(order_id)`
\* outside any try; get_positions returns self._positions, an attribute that
\* only _process_reconcile_response creates
CTraderOperation(op, connected, reconciled, arg) ==
    IF op = "cancel_order"
    THEN IF connected /\ ~IsNumeric(arg) THEN "raises" ELSE "typed"
    ELSE IF op = "get_positions"
    THEN IF reconciled THEN "typed" ELSE "raises"
    ELSE "typed"

\* TradeLockerBroker: place_order builds its payload with `int(inst_id)`
\* before its try block
TradeLockerOperation(op, connected, arg) ==
    IF op = "place_order"
    THEN IF connected /\ arg # "" /\ ~IsNumeric(arg) THEN "raises" ELSE "typed"
    ELSE "typed"

NoCall == [adapter |-> "", op |-> "", arg |-> "", connected |-> FALSE, outcome |-> "none"]

\* connect() succeeds or fails; disconnect()
AdapterConnect(a) ==
    /\ \E ok \in BOOLEAN : adConnected' = [adConnected EXCEPT ![a] = ok]
    /\ adCall' = [adapter |-> a, op |-> "connect", arg |-> "",
                  connected |-> adConnected[a], outcome |-> "typed"]
    /\ UNCHANGED <<adapterFrame, adReconciled, delPc, delTry, delLog, delResult, statsErrors>>

AdapterDisconnect(a) ==
    /\ adConnected[a]
    /\ adConnected' = [adConnected EXCEPT ![a] = FALSE]
    /\ UNCHANGED <<adapterFrame, adReconciled, adCall, delPc, delTry, delLog, delResult,
                   statsErrors>>

\* any other operation is called; a connected cTrader adapter that gets the
\* answer to its reconcile request has _positions from then on, and
\* get_positions reads it after its own reconcile request
AdapterCall(a) ==
    /\ \E op \in Operations \ {"connect"}, answered \in BOOLEAN :
          \E arg \in ArgsOf(op) :
             LET reconciled ==
                     adReconciled \/ (/\ a = "ctrader" /\ adConnected[a] /\ answered
                                      /\ op \in {"get_pending_orders", "get_positions"})
             IN  /\ adCall' = [adapter |-> a, op |-> op, arg |-> arg,
                               connected |-> adConnected[a],
                               outcome |->
                                  IF a = "ctrader"
                                  THEN CTraderOperation(op, adConnected[a], reconciled, arg)
                                  ELSE TradeLockerOperation(op, adConnected[a], arg)]
                 /\ adReconciled' = reconciled
    /\ UNCHANGED <<adapterFrame, adConnected, delPc, delTry, delLog, delResult, statsErrors>>

(***************************************************************************)
(* brokers/tradelocker.py: cancel_order, one DELETE request at a time, and *)
(* what cleanup_broker makes of its result.                                *)
(***************************************************************************)
\* `max_retries: int = 2`
max_retries == 2

\* what a DELETE can come to: a status code, a timeout, another exception
HttpAnswers == {"200", "204", "404", "500", "timeout", "error"}

NoResult == [returned |-> FALSE, success |-> FALSE, message |-> "", error_code |-> ""]
Result(success, message) ==
    [returned |-> TRUE, success |-> success, message |-> message, error_code |-> ""]

\* a 404 taken for a failure like any other status
AlreadyGone_never(status) == FALSE

\* `elif response.status_code == 404:`
AlreadyGone(status) == status = "404"

\* cancel_order is entered
CancelBegin ==
    /\ delPc = "idle"
    /\ IF ~adConnected["tradelocker"]
       THEN /\ delResult' = Result(FALSE, "Not connected")
            /\ delPc' = "returned"
       ELSE /\ delPc' = "attempt"
            /\ UNCHANGED delResult
    /\ UNCHANGED <<adapterFrame, adConnected, adReconciled, adCall, delTry, delLog, statsErrors>>

\* one turn of `for attempt in range(max_retries)`
CancelAttempt ==
    /\ delPc = "attempt"
    /\ \E answer \in HttpAnswers :
          LET sent == Append(delLog, [kind |-> "DELETE", answer |-> answer, ms |-> 0])
              last == delTry = max_retries - 1
              return(success, message) ==
                  /\ delResult' = Result(success, message)
                  /\ delPc' = "returned"
                  /\ delLog' = sent
                  /\ UNCHANGED delTry
          IN  IF answer \in {"200", "204"} THEN return(TRUE, "Order cancelled")
              ELSE IF AlreadyGone(answer)
              THEN return(TRUE, "Order already cancelled or filled")
              ELSE IF answer = "error" THEN return(FALSE, "error")
              ELSE IF answer = "timeout"
              THEN IF delTry < max_retries - 1
                   THEN /\ delLog' = Append(sent, [kind |-> "sleep", answer |-> "",
                                                   ms |-> 2000])
                        /\ delTry' = delTry + 1
                        /\ UNCHANGED <<delResult, delPc>>
                   ELSE return(FALSE, "Cancel timeout")
              ELSE IF last
              THEN /\ delResult' = [Result(FALSE, "Cancel failed") EXCEPT !.error_code = answer]
                   /\ delPc' = "returned"
                   /\ delLog' = sent
                   /\ UNCHANGED delTry
              ELSE /\ delLog' = sent
                   /\ delTry' = delTry + 1
                   /\ UNCHANGED <<delResult, delPc>>
    /\ UNCHANGED <<adapterFrame, adConnected, adReconciled, adCall, statsErrors>>

\* cleanup_broker: `if result.success: ... else: stats["errors"].append(...)`
ReaperRecords ==
    /\ delPc = "returned"
    /\ statsErrors' = IF delResult.success THEN statsErrors
                      ELSE Append(statsErrors, delResult.message)
    /\ delPc' = "recorded"
    /\ UNCHANGED <<adapterFrame, adConnected, adReconciled, adCall, delTry, delLog, delResult>>

(***************************************************************************)
(* brokers/ctrader.py _refresh_access_token, _save_tokens_to_config and    *)
(* config/__init__.py update_broker_tokens, _save_file: the rotation of    *)
(* the tokens, one step at a time.  A token is the number of the refresh   *)
(* that issued it; 1 is the token of the installation, 0 is no token.      *)
(***************************************************************************)
MaxRefreshes == 2

Pair(access, refresh) == [access |-> access, refresh |-> refresh]
NoPair == Pair(0, 0)

\* the file: "full" (a complete document), "empty" (opened for writing and
\* truncated) or "cut" (a part of the document); `listed`: the document has
\* an entry for the broker under "brokers"
Disk(state, listed, pair) == [state |-> state, listed |-> listed, pair |-> pair]

\* the token endpoint's answers: a new pair, a new access token alone, a
\* body without access token, another status, an exception
TokenAnswers == {"pair", "access", "no_access", "status", "error"}

\* _refresh_access_token up to the call of _save_tokens_to_config
RefreshPost ==
    /\ tokPc = "idle"
    /\ tokCount < MaxRefreshes
    /\ tokOld' = tokDisk.pair
    /\ IF tokSelf.refresh = 0
       THEN /\ tokRet' = "false"
            /\ tokPc' = "returned"
            /\ UNCHANGED <<tokSelf, tokCount>>
       ELSE /\ tokCount' = tokCount + 1
            /\ \E answer \in TokenAnswers :
                  IF answer \in {"pair", "access"}
                  THEN /\ tokSelf' = Pair(tokCount + 2,
                                          IF answer = "pair" THEN tokCount + 2
                                          ELSE tokSelf.refresh)
                       /\ tokPc' = "save"
                       /\ UNCHANGED tokRet
                  ELSE /\ tokRet' = "false"
                       /\ tokPc' = "returned"
                       /\ UNCHANGED tokSelf
    /\ UNCHANGED <<tokenFrame, tokDisk, tokMem, tokNew>>

\* update_broker_tokens up to _save_file: nothing when no configuration is
\* loaded, the file is read again, nothing when it has no entry for the
\* broker.  _save_tokens_to_config wraps the call in `except Exception`, so
\* a file that cannot be parsed ends the save like a save that was done
SaveLoad ==
    /\ tokPc = "save"
    /\ IF ~tokMem.loaded
       THEN tokPc' = "return" /\ UNCHANGED tokNew
       ELSE IF tokDisk.state # "full"
       THEN tokPc' = "return" /\ UNCHANGED tokNew
       ELSE IF ~tokDisk.listed
       THEN tokPc' = "return" /\ UNCHANGED tokNew
       ELSE /\ tokNew' = tokSelf
            /\ tokPc' = "open"
    /\ UNCHANGED <<tokenFrame, tokDisk, tokMem, tokSelf, tokRet, tokOld, tokCount>>

\* _save_file: `open(path, "w")` truncates the file
SaveOpen ==
    /\ tokPc = "open"
    /\ tokDisk' = Disk("empty", FALSE, NoPair)
    /\ tokPc' = "dump"
    /\ UNCHANGED <<tokenFrame, tokMem, tokSelf, tokRet, tokNew, tokOld, tokCount>>

\* _save_file: the document is written, or the write fails part-way and
\* _save_tokens_to_config swallows the exception
SaveDump ==
    /\ tokPc = "dump"
    /\ \E written \in BOOLEAN :
          IF written
          THEN /\ tokDisk' = Disk("full", TRUE, tokNew)
               /\ tokPc' = "memory"
          ELSE /\ tokDisk' = Disk("cut", FALSE, NoPair)
               /\ tokPc' = "return"
    /\ UNCHANGED <<tokenFrame, tokMem, tokSelf, tokRet, tokNew, tokOld, tokCount>>

\* update_broker_tokens: `_config.brokers[broker_id][...] = ...`
SaveMemory ==
    /\ tokPc = "memory"
    /\ tokMem' = [tokMem EXCEPT !.pair = tokNew]
    /\ tokPc' = "return"
    /\ UNCHANGED <<tokenFrame, tokDisk, tokSelf, tokRet, tokNew, tokOld, tokCount>>

\* `return True`
RefreshReturn ==
    /\ tokPc = "return"
    /\ tokRet' = "true"
    /\ tokPc' = "returned"
    /\ UNCHANGED <<tokenFrame, tokDisk, tokMem, tokSelf, tokNew, tokOld, tokCount>>

\* the process ends and a later one finds its tokens due again: it loads the
\* file when the file can be read
NextSession ==
    /\ tokPc = "returned"
    /\ tokDisk.state = "full" /\ tokDisk.listed
    /\ tokPc' = "idle"
    /\ tokRet' = "none"
    /\ tokMem' = [loaded |-> TRUE, pair |-> tokDisk.pair]
    /\ tokSelf' = tokDisk.pair
    /\ UNCHANGED <<tokenFrame, tokDisk, tokNew, tokOld, tokCount>>

\* the process dies during the rotation; while the document is being written
\* a part of it may have reached the file
Crash ==
    /\ tokPc \in {"save", "open", "dump", "memory", "return"}
    /\ tokPc' = "crashed"
    /\ IF tokPc = "dump"
       THEN \E part \in {"empty", "cut"} : tokDisk' = Disk(part, FALSE, NoPair)
       ELSE UNCHANGED tokDisk
    /\ UNCHANGED <<tokenFrame, tokMem, tokSelf, tokRet, tokNew, tokOld, tokCount>>

(***************************************************************************)
(* brokers/ctrader.py: get_account_info, get_pending_orders and the        *)
(* on_message callback.  Requests are numbered in the order they are made; *)
(* the response to request n is the message n.                             *)
(***************************************************************************)
MaxCalls == 3

\* the keys of self._pending_requests these operations use
Kinds == {"account_info", "reconcile"}

Min(S) == CHOOSE x \in S : \A y \in S : x <= y

\* on_message: `self._pending_requests[kind].set_result(...)`, the future
\* stored under the kind of the message, whichever request stored it
FutureFor(pending, kind, message) == pending[kind]

\* get_account_info / get_pending_orders up to the await: the future is
\* stored under the kind, whatever the entry held, and the request is sent.
\* The operations are called one after the other
RpcCall(kind) ==
    /\ Len(rpcReq) < MaxCalls
    /\ \A n \in 1..Len(rpcReq) : rpcReq[n].state # "waiting"
    /\ rpcReq' = Append(rpcReq, [kind |-> kind, state |-> "waiting", by |-> 0])
    /\ rpcPending' = [rpcPending EXCEPT ![kind] = Len(rpcReq) + 1]
    /\ rpcWire' = rpcWire \cup {Len(rpcReq) + 1}
    /\ UNCHANGED rpcFrame

\* `except asyncio.TimeoutError`: the caller gives up; the entry stays
RpcTimeout(n) ==
    /\ rpcReq[n].state = "waiting"
    /\ rpcReq' = [rpcReq EXCEPT ![n].state = "timedout"]
    /\ UNCHANGED <<rpcFrame, rpcPending, rpcWire>>

\* on_message: the oldest response arrives; a future that is already done
\* refuses the result
RpcDeliver ==
    /\ rpcWire # {}
    /\ LET m == Min(rpcWire)
           f == FutureFor(rpcPending, rpcReq[m].kind, m)
       IN  /\ rpcWire' = rpcWire \ {m}
           /\ rpcReq' = IF f # 0 /\ rpcReq[f].state = "waiting"
                        THEN [rpcReq EXCEPT ![f].state = "resolved", ![f].by = m]
                        ELSE rpcReq
    /\ UNCHANGED <<rpcFrame, rpcPending>>

(***************************************************************************)
(* services/order_placer.py _place_on_broker: the account value handed to  *)
(* the position sizer.                                                     *)
(***************************************************************************)
NoValueIn == [use_equity |-> TRUE, balance |-> 0, equity |-> 0]
NoValueOut == [done |-> FALSE, account_value |-> 0]

\* `x or y` of numbers: y when x is zero
Or(x, y) == IF x = 0 THEN y ELSE x

\* `account_value = account_info.equity if use_equity else account_info.balance`
\* `if not account_value or account_value <= 0:`
\* `    account_value = account_info.balance or 10000`
account_value(use_equity, info) ==
    LET first == IF use_equity THEN info.equity ELSE info.balance
    IN  IF first = 0 \/ first <= 0 THEN Or(info.balance, 10000) ELSE first

\* _place_on_broker reaches the call of calculate_position_size
ChooseValue ==
    /\ ~valOut.done
    /\ valOut' = [done |-> TRUE, account_value |-> account_value(valIn.use_equity, valIn)]
    /\ UNCHANGED <<valueFrame, valIn>>

(***************************************************************************)
(* webhook/server.py parse_tradingview_alert, called on a text and on the  *)
(* same text with one more line.                                           *)
(***************************************************************************)
NoParseIn == [text |-> <<>>, line |-> HeadLine(<<>>), at |-> 0]
NoParseOut == [done |-> FALSE, plain |-> <<>>, with |-> <<>>]

\* `text` with `line` as its line number `at`
InsertAt(text, line, at) ==
    SubSeq(text, 1, at - 1) \o <<line>> \o SubSeq(text, at, Len(text))

ParseBoth ==
    /\ ~parseOut.done
    /\ parseOut' = [done |-> TRUE,
                    plain |-> parse_tradingview_alert(parseIn.text),
                    with |-> parse_tradingview_alert(
                                InsertAt(parseIn.text, parseIn.line, parseIn.at))]
    /\ UNCHANGED <<parseFrame, parseIn>>

(***************************************************************************)
(* brokers/ctrader.py connect, _should_refresh_token and                   *)
(* _refresh_access_token for the adapters that the dispatcher and the      *)
(* reaper each create for the same account.  A token is the number of the  *)
(* refresh that issued it; 1 is the token of the installation.             *)
(***************************************************************************)
MaxPresented == 3

\* OrderPlacer and OrderCleaner: each builds its own adapters in connect()
Holders == {"dispatcher", "reaper"}

\* the endpoint's part in a refresh: it rotates and answers, it rotates and
\* the answer is lost, or the request does not reach it
EndpointAnswers == {"pair", "lost", "down"}

\* _should_refresh_token (auto_refresh_token left at its default)
should_refresh_token(refresh_token, token_refreshed) ==
    refresh_token # 0 /\ ~token_refreshed

\* create_all_brokers: `self.refresh_token = config.get("refresh_token", "")`
Construct(h) ==
    /\ shPc[h] = "none"
    /\ shToken' = [shToken EXCEPT ![h] = shStore]
    /\ shRefreshed' = [shRefreshed EXCEPT ![h] = FALSE]
    /\ shPc' = [shPc EXCEPT ![h] = "built"]
    /\ UNCHANGED <<shareFrame, shStore, shValid, shPresented>>

\* connect(): the refresh when it is due, then the connection.  A refresh
\* that succeeded stores the new token and sets _token_refreshed; one that
\* failed changes nothing in the adapter
Connect(h) ==
    /\ shPc[h] \in {"built", "connected"}
    /\ shPc' = [shPc EXCEPT ![h] = "connected"]
    /\ IF should_refresh_token(shToken[h], shRefreshed[h]) /\ Len(shPresented) < MaxPresented
       THEN /\ shPresented' = Append(shPresented, [by |-> h, token |-> shToken[h]])
            /\ \E answer \in EndpointAnswers :
                  IF shToken[h] = shValid /\ answer = "pair"
                  THEN /\ shValid' = shValid + 1
                       /\ shToken' = [shToken EXCEPT ![h] = shValid + 1]
                       /\ shStore' = shValid + 1
                       /\ shRefreshed' = [shRefreshed EXCEPT ![h] = TRUE]
                  ELSE /\ shValid' = IF shToken[h] = shValid /\ answer = "lost"
                                     THEN shValid + 1 ELSE shValid
                       /\ UNCHANGED <<shToken, shStore, shRefreshed>>
       ELSE UNCHANGED <<shToken, shRefreshed, shStore, shValid, shPresented>>
    /\ UNCHANGED shareFrame

\* the holder gives its adapters up; its next connect() builds new ones
Discard(h) ==
    /\ shPc[h] = "connected"
    /\ shPc' = [shPc EXCEPT ![h] = "none"]
    /\ UNCHANGED <<shareFrame, shToken, shRefreshed, shStore, shValid, shPresented>>

(***************************************************************************)
(* brokers/ctrader.py: place_order on a connected adapter, on_message and  *)
(* _process_order_response.                                                *)
(***************************************************************************)
MaxPlacements == 3

NoMessage == [type |-> "", execution |-> "", about |-> ""]

\* the messages the server sends while a placement may be pending: execution
\* events (about the order being placed or about another order of the
\* account), the order error event, the general error response
OrderMessages ==
    { [type |-> "ProtoOAExecutionEvent", execution |-> e, about |-> a] :
        e \in {"ORDER_ACCEPTED", "ORDER_FILLED", "ORDER_REJECTED"}, a \in {"this", "other"} }
    \cup { [type |-> "ProtoOAOrderErrorEvent", execution |-> "", about |-> "this"],
           [type |-> "ProtoOAErrorRes", execution |-> "", about |-> ""] }

\* `"Order" in ptype or "Execution" in ptype`
IsOrderMessage(ptype) == ptype \in {"ProtoOAExecutionEvent", "ProtoOAOrderErrorEvent"}

\* _process_order_response: every branch sets `success=True`
OrderResultFor(message) == TRUE

\* place_order up to the await: the future is stored and the request sent
OrdPlace ==
    /\ Len(ordCalls) < MaxPlacements
    /\ \A n \in 1..Len(ordCalls) : ordCalls[n].state # "waiting"
    /\ ordCalls' = Append(ordCalls, [state |-> "waiting", success |-> FALSE, by |-> NoMessage])
    /\ ordPending' = Len(ordCalls) + 1
    /\ UNCHANGED ordFrame

\* `except asyncio.TimeoutError`: "Order timeout"; the entry stays
OrdTimeout(n) ==
    /\ ordCalls[n].state = "waiting"
    /\ ordCalls' = [ordCalls EXCEPT ![n].state = "returned"]
    /\ UNCHANGED <<ordFrame, ordPending>>

\* on_message: ProtoOAErrorRes returns early; an order message pops the
\* entry and resolves its future, which refuses the result when it is done
OrdMessage(m) ==
    /\ Len(ordCalls) > 0
    /\ IF IsOrderMessage(m.type) /\ ordPending # 0
       THEN /\ ordPending' = 0
            /\ ordCalls' =
                  IF ordCalls[ordPending].state = "waiting"
                  THEN [ordCalls EXCEPT ![ordPending] =
                           [state |-> "returned", success |-> OrderResultFor(m), by |-> m]]
                  ELSE ordCalls
       ELSE UNCHANGED <<ordPending, ordCalls>>
    /\ UNCHANGED ordFrame
(***************************************************************************)
(* The state after construction.                                           *)
(***************************************************************************)
QueueVarsInit ==
    /\ signalQueue = <<>>
    /\ queueWorkerStarted = FALSE
    /\ lockHolder = 0
    /\ starterPc = [s \in Starters |-> "idle"]
    /\ wpc = [s \in Starters |-> "absent"]
    /\ witem = [s \in Starters |-> [rid |-> 0, signal |-> NoSignal]]
    /\ reqPc = [r \in Requests |-> "new"]
    /\ reqSignal = [r \in Requests |-> NoSignal]
    /\ response = [r \in Requests |-> NoResponse]
    /\ accepted = {}
    /\ putLog = <<>>
    /\ dispatchLog = <<>>

BrokerVarsInit ==
    /\ brokerPending = [a \in Accounts |-> <<>>]

PlaceVarsInit ==
    /\ placeStatus = "none"
    /\ sigSymbol = ""
    /\ targets = <<>>
    /\ placeIdx = 1
    /\ results = [a \in AllTargets |-> "none"]
    /\ faulted = {}
    /\ obs = NoObs

ReapVarsInit ==
    /\ cleanPc = "idle"
    /\ cleanB = 1
    /\ cleanOrders = <<>>
    /\ cleanIdx = 1
    /\ listedLog = {}
    /\ cancelLog = {}
    /\ cleanErrors = {}
    /\ cycleClean = TRUE
    /\ prevCycle = NoCycle

SizerVarsInit ==
    /\ sizeIn = NoSizerInput
    /\ sizeOut = NoSize
    /\ sizePip = NoValue

PaceVarsInit ==
    /\ clock \in Boots
    /\ last_signal_time = 0
    /\ jobs = <<>>
    /\ nput = 0
    /\ wstep = "get"
    /\ job = NoJob
    /\ runs = <<>>

CandleVarsInit ==
    /\ candIn = [symbol |-> "", t |-> 0]
    /\ candOut = NoCount

AdapterVarsInit ==
    /\ adConnected = [a \in AdapterTypes |-> FALSE]
    /\ adReconciled = FALSE
    /\ adCall = NoCall
    /\ delPc = "idle"
    /\ delTry = 0
    /\ delLog = <<>>
    /\ delResult = NoResult
    /\ statsErrors = <<>>

\* the installation: the pair 1 in the adapter and in memory
TokenVarsInit ==
    /\ tokDisk = Disk("full", TRUE, Pair(1, 1))
    /\ tokMem = [loaded |-> TRUE, pair |-> Pair(1, 1)]
    /\ tokSelf = Pair(1, 1)
    /\ tokPc = "idle"
    /\ tokRet = "none"
    /\ tokNew = NoPair
    /\ tokOld = NoPair
    /\ tokCount = 0

RpcVarsInit ==
    /\ rpcPending = [k \in Kinds |-> 0]
    /\ rpcReq = <<>>
    /\ rpcWire = {}

ValueVarsInit ==
    /\ valIn = NoValueIn
    /\ valOut = NoValueOut

ParseVarsInit ==
    /\ parseIn = NoParseIn
    /\ parseOut = NoParseOut

ShareVarsInit ==
    /\ shPc = [h \in Holders |-> "none"]
    /\ shToken = [h \in Holders |-> 0]
    /\ shRefreshed = [h \in Holders |-> FALSE]
    /\ shStore = 1
    /\ shValid = 1
    /\ shPresented = <<>>

OrdVarsInit ==
    /\ ordPending = 0
    /\ ordCalls = <<>>

ExtraVarsInit ==
    /\ PaceVarsInit
    /\ CandleVarsInit
    /\ AdapterVarsInit
    /\ TokenVarsInit
    /\ RpcVarsInit
    /\ ValueVarsInit
    /\ ParseVarsInit
    /\ ShareVarsInit
    /\ OrdVarsInit

(***************************************************************************)
(* SpecQueue: the intake, the queue and its worker.                        *)
(***************************************************************************)
InitQueue ==
    /\ config \in WebhookConfigs
    /\ probe = NoRequest
    /\ QueueVarsInit
    /\ BrokerVarsInit
    /\ PlaceVarsInit
    /\ now = 0
    /\ ReapVarsInit
    /\ SizerVarsInit
    /\ ExtraVarsInit

NextQueue ==
    \/ \E s \in Starters : StartAcquire(s)
    \/ \E s \in Starters : StartTest(s)
    \/ \E s \in Starters : StartSet(s)
    \/ \E s \in Starters : StartSpawn(s)
    \/ \E w \in Starters : WorkerGet(w)
    \/ \E w \in Starters : WorkerDispatch(w)
    \/ \E w \in Starters : WorkerDone(w)
    \/ \E r \in Requests : WebhookReceive(r)
    \/ \E r \in Requests : queue_signal(r)
    \/ \E r \in Requests : WebhookRespond(r)

SpecQueue == InitQueue /\ [][NextQueue]_vars

\* the same server while every client sends one and the same request
InitIntake ==
    /\ config \in WebhookConfigs
    /\ probe \in IntakeInputs
    /\ QueueVarsInit
    /\ BrokerVarsInit
    /\ PlaceVarsInit
    /\ now = 0
    /\ ReapVarsInit
    /\ SizerVarsInit
    /\ ExtraVarsInit

SpecIntake == InitIntake /\ [][NextQueue]_vars

(***************************************************************************)
(* Properties of the intake and the queue worker.                          *)
(***************************************************************************)
Workers == {w \in Starters : wpc[w] # "absent"}

\* C1: the worker hands signals to the dispatcher in the order in which they
\* were put on the queue: at every moment the sequence of dispatched requests
\* is a prefix of the sequence of enqueued requests.
Inv_C1 == IsPrefix(dispatchLog, putLog)

\* the second request to arrive was enqueued, and dispatched, before the first
Wit_C1 == dispatchLog = <<2, 1>>

\* C2: there is never more than one worker thread, however many calls of
\* start_queue_worker overlap, so at most one signal is being dispatched; once
\* every call has returned there is exactly one worker.
Inv_C2 ==
    /\ Cardinality(Workers) <= 1
    /\ Cardinality({w \in Starters : wpc[w] = "placing"}) <= 1
    /\ (\A s \in Starters : starterPc[s] = "returned") => Cardinality(Workers) = 1

\* every call returned, the worker is dispatching and another signal waits
Wit_C2 ==
    /\ \A s \in Starters : starterPc[s] = "returned"
    /\ \E w \in Starters : wpc[w] = "placing"
    /\ signalQueue # <<>>

\* C3: a request that passed authentication and validation is enqueued
\* exactly once and, once answered, its answer is 202 "queued" with the
\* queue position.
Claim_C3 ==
    \A r \in accepted :
        reqPc[r] = "done" =>
            /\ SeqCount(putLog, r) = 1
            /\ response[r].status = 202
            /\ response[r].body = "queued"



(***************************************************************************)
(* Properties of the webhook's checks, stated on the request every client  *)
(* of the run sends.                                                       *)
(***************************************************************************)
\* the request got past the address filter / past authentication as well
PastFilter == check_ip_allowed(config.allowed_ips, probe.remote_addr, probe.forwarded_for)
Admitted == PastFilter /\ require_auth(config.secret_token, probe)

\* request r was put on the queue
Enqueued(r) == \E i \in DOMAIN putLog : putLog[i] = r

\* request r is answered, when it is answered, with `status`, and not enqueued
Refused(r, status) ==
    /\ r \notin accepted
    /\ ~Enqueued(r)
    /\ reqPc[r] = "done" => response[r].status = status

\* the secret is in one of the four places
CarriesSecret(req, secret) ==
    \/ req.authorization.scheme = "Bearer" /\ req.authorization.token = secret
    \/ req.x_webhook_token = secret
    \/ req.query_token = secret
    \/ /\ req.is_json
       /\ \/ "token" \in DOMAIN req.data /\ req.data["token"] = Str(secret)
          \/ "secret" \in DOMAIN req.data /\ req.data["secret"] = Str(secret)

\* C17: a request that carries the configured secret in none of the four
\* places (Bearer header, X-Webhook-Token header, token query parameter,
\* token/secret JSON field) is answered 401 and is not enqueued.
Claim_C17 ==
    \A r \in Requests :
        (reqPc[r] # "new" /\ PastFilter /\ ~CarriesSecret(probe, config.secret_token))
            => Refused(r, 401)

\* the same, once a secret other than the placeholder is configured
Configured_C17 == config.secret_token = "CHANGE_ME" \/ Claim_C17

\* C18: with an allow-list configured, a request whose source address is in
\* neither the allow-list nor the built-in list is answered 403, whatever
\* headers or token it carries, and is not enqueued.
Claim_C18 ==
    \A r \in Requests :
        (/\ reqPc[r] # "new"
         /\ config.allowed_ips # {}
         /\ probe.remote_addr \notin config.allowed_ips \cup tradingview_ips)
            => Refused(r, 403)

\* the same for requests without an X-Forwarded-For header
Direct_C18 == probe.forwarded_for # "" \/ Claim_C18

\* the payload has all five fields, under either name
HasAll(data) ==
    /\ "symbol" \in DOMAIN data
    /\ "side" \in DOMAIN data
    /\ "entry" \in DOMAIN data \/ "entry_price" \in DOMAIN data
    /\ "sl" \in DOMAIN data \/ "stop_loss" \in DOMAIN data
    /\ "tp" \in DOMAIN data \/ "take_profit" \in DOMAIN data

\* the payload's three prices are numbers and break the price invariant
ViolatesPrices(data) ==
    /\ HasAll(data)
    /\ LET entry == Get(data, "entry", Get(data, "entry_price", Num(0)))
           sl == Get(data, "sl", Get(data, "stop_loss", Num(0)))
           tp == Get(data, "tp", Get(data, "take_profit", Num(0)))
       IN  /\ entry.t = "num" /\ sl.t = "num" /\ tp.t = "num"
           /\ \/ entry.v = 0 \/ sl.v = 0 \/ tp.v = 0
              \/ data["side"] = Str("LONG") /\ ~(sl.v < entry.v /\ entry.v < tp.v)
              \/ data["side"] = Str("SHORT") /\ ~(tp.v < entry.v /\ entry.v < sl.v)

\* C19: a payload that violates the price invariant is answered 400 and is
\* never enqueued or dispatched.
Claim_C19 ==
    \A r \in Requests :
        (reqPc[r] # "new" /\ Admitted /\ ViolatesPrices(Body(probe)))
            => (Refused(r, 400) /\ \A i \in DOMAIN dispatchLog : dispatchLog[i] # r)

\* C20: a payload, JSON or parsed from text, that lacks one of symbol, side,
\* entry (or entry_price), sl (or stop_loss), tp (or take_profit) is answered
\* 400 and the queue is left as it was: nothing is ever put on it.
Inv_C20 ==
    (Admitted /\ ~HasAll(Body(probe))) =>
        /\ signalQueue = <<>>
        /\ putLog = <<>>
        /\ \A r \in Requests : reqPc[r] # "new" => (reqPc[r] = "done" /\ Refused(r, 400))

\* every request of the run, a text message whose TP is not a number, has been
\* answered 400 by the server that checks a secret
Wit_C20 ==
    /\ config.secret_token = Secret
    /\ Admitted
    /\ ~probe.is_json
    /\ probe.text = TextBadTp
    /\ \A r \in Requests : reqPc[r] = "done" /\ response[r].status = 400
(***************************************************************************)
(* SpecPlace: the dispatcher, its filters and the brokers' accounts.       *)
(***************************************************************************)
\* SpecPlace follows no time: its configurations have the delay between the
\* accounts switched off
Undelayed == [DefaultConfig EXCEPT !.delay_between_brokers.enabled = FALSE]

\* the defaults; without the skip notification; with a configured account
\* order; without duplicate prevention
PlaceConfigs ==
    { Undelayed,
      [Undelayed EXCEPT !.on_filter_skip = FALSE],
      [Undelayed EXCEPT !.on_filter_skip = FALSE,
                        !.broker_order = <<"gft_tradelocker", "ftmo_ctrader">>],
      [Undelayed EXCEPT !.on_filter_skip = FALSE,
                        !.prevent_duplicate_orders = FALSE] }

InitPlace ==
    /\ config \in PlaceConfigs
    /\ probe = NoRequest
    /\ QueueVarsInit
    /\ BrokerVarsInit
    /\ PlaceVarsInit
    /\ now = 0
    /\ ReapVarsInit
    /\ SizerVarsInit
    /\ ExtraVarsInit

NextPlace ==
    \/ PlaceStart
    \/ PlaceAccount
    \/ PlaceReturn
    \/ \E a \in Accounts : BrokerFill(a)

SpecPlace == InitPlace /\ [][NextPlace]_vars

\* dispatches with the delay between the accounts: the defaults (500-3000 ms),
\* the delay switched off, and a fixed delay
PlaceDelayConfigs ==
    { [c EXCEPT !.on_filter_skip = FALSE] : c \in DelayConfigs }

InitPlaceTimed ==
    /\ config \in PlaceDelayConfigs
    /\ probe = NoRequest
    /\ QueueVarsInit
    /\ BrokerVarsInit
    /\ PlaceVarsInit
    /\ now = 0
    /\ ReapVarsInit
    /\ SizerVarsInit
    /\ ExtraVarsInit

NextPlaceTimed ==
    \/ PlaceStart
    \/ PlaceAccount
    \/ PlaceReturn

SpecPlaceTimed == InitPlaceTimed /\ [][NextPlaceTimed]_vars

(***************************************************************************)
(* Properties of the dispatcher and its filters.  obs describes the latest *)
(* iteration of the loop: the account, what its adapter answered, the      *)
(* filter's verdict, the outcome and whether an order request was sent.    *)
(***************************************************************************)
\* C4: when the filter blocks an account its outcome is recorded, the
\* dispatch does not end in an exception, and the map a finished dispatch
\* returns holds an outcome for every account of the account order.
Claim_C4 ==
    \A a \in Accounts :
        results[a] \in BlockingResults =>
            /\ placeStatus # "raised"
            /\ placeStatus = "returned" =>
                  \A i \in 1..Len(targets) : results[targets[i]] # "none"

\* C5: an account whose adapter failed while sizing or submitting has the
\* error outcome, the failure does not end the dispatch (the loop stands at
\* the next account), and a returned map covers every account.
Inv_C5 ==
    /\ \A a \in faulted : results[a] = "error"
    /\ obs.fault => placeStatus # "raised" /\ placeIdx = obs.idx + 1
    /\ placeStatus = "returned" =>
          \A i \in 1..Len(targets) : results[targets[i]] # "none"

\* the first account's adapter failed and the second account got its order
Wit_C5 ==
    /\ placeStatus = "returned"
    /\ Len(targets) = 2
    /\ targets[1] \in faulted
    /\ results[targets[2]] = "submitted"

\* C6: with duplicate prevention on, dispatching a signal to an account that
\* still holds the pending order of an earlier dispatch of the same symbol
\* (the listing succeeds and is below the cap) sends no second order, the
\* verdict is DUPLICATE_ORDER, and the dispatch goes on to yield its outcomes.
Claim_C6 ==
    ( /\ config.prevent_duplicate_orders
      /\ obs.had_order
      /\ obs.listing_ok
      /\ obs.npending < config.max_pending_orders
      /\ obs.filter # "margin_insufficient" )
    => /\ obs.filter = "duplicate_order"
       /\ ~obs.sent
       /\ placeStatus # "raised"

\* C7: an account with as many open positions as the cap, or more, is sent
\* no order, and unless the margin filter blocked it first the verdict is
\* MAX_POSITIONS_REACHED.
Claim_C7 ==
    (~obs.none /\ obs.npositions >= config.max_open_positions)
    => /\ ~obs.sent
       /\ obs.filter \in {"margin_insufficient", "max_positions_reached"}

\* C8: an account whose listed pending orders number the cap or more is sent
\* no order, and unless an earlier filter blocked it the verdict is
\* MAX_PENDING_ORDERS; when the listing fails the pending-order and
\* duplicate filters do not block the account.
Inv_C8 ==
    /\ (obs.listing_ok /\ obs.npending >= config.max_pending_orders)
       => /\ ~obs.sent
          /\ obs.filter \in {"margin_insufficient", "max_positions_reached",
                             "max_pending_orders"}
    /\ (~obs.none /\ ~obs.listing_ok)
       => obs.filter \in {"margin_insufficient", "max_positions_reached", "passed"}

\* the listing succeeded, showed the cap reached, and the account was blocked
Wit_C8 ==
    /\ obs.listing_ok
    /\ obs.npending >= config.max_pending_orders
    /\ obs.filter = "max_pending_orders"
    /\ obs.outcome = "filtered"

\* C9: for an account with equity > 0 the verdict is MARGIN_INSUFFICIENT, and
\* no order is sent, exactly when the ratio is below the minimum, the ratio
\* being freeMargin/equity x 100 for freeMargin > 0 and 100 when freeMargin
\* is zero or unknown.
Inv_C9 ==
    (~obs.none /\ obs.equity > 0 /\ obs.margin_free >= 0) =>
        LET below == IF obs.mf_known /\ obs.margin_free > 0
                     THEN obs.margin_free * 100 < config.min_margin_percent * obs.equity
                     ELSE 100 < config.min_margin_percent
        IN  /\ (obs.filter = "margin_insufficient") <=> below
            /\ below => ~obs.sent

\* a TradeLocker account with equity 1000 and free margin 299 was blocked
Wit_C9 ==
    /\ obs.filter = "margin_insufficient"
    /\ obs.equity = 1000
    /\ obs.margin_free = 299
    /\ obs.outcome = "filtered"


\* the account step the history holds did work on an account of the dispatcher
Worked == obs.idx > 0 /\ obs.outcome # "not_found"

\* C22 as stated: the first account is processed without delay and the work
\* on every later account begins after a sleep of min_ms to max_ms.
Claim_C22 ==
    Worked =>
        IF obs.idx = 1 THEN obs.delay_ms = 0
        ELSE /\ obs.delay_ms >= config.delay_between_brokers.min_ms
             /\ obs.delay_ms <= config.delay_between_brokers.max_ms

\* C22, amended: that holds while delay_between_brokers.enabled is set; with
\* the switch off the dispatcher sleeps before no account.
Inv_C22 ==
    Worked =>
        IF obs.idx = 1 \/ ~config.delay_between_brokers.enabled THEN obs.delay_ms = 0
        ELSE /\ obs.delay_ms >= config.delay_between_brokers.min_ms
             /\ obs.delay_ms <= config.delay_between_brokers.max_ms

\* under the defaults the second account was worked on after the shortest sleep
Wit_C22 ==
    /\ Worked
    /\ obs.idx = 2
    /\ config.delay_between_brokers.enabled
    /\ config.delay_between_brokers.min_ms < config.delay_between_brokers.max_ms
    /\ obs.delay_ms = config.delay_between_brokers.min_ms
(***************************************************************************)
(* SpecReaper: cleanup cycles over the accounts' pending orders.           *)
(***************************************************************************)
\* day d after the epoch (day 0), at hour h
At(d, h) == d * 1440 + h * 60

\* the reaper runs Monday 1970-01-05 at 06:00
NowSamples == {At(4, 6)}

\* the pending orders an account can hold.  cTrader always reports
\* openTimestamp; TradeLocker may omit createTime
BrokerOrderSamples(a) ==
    IF config.brokers[a].type = "ctrader"
    THEN {[inst |-> "1", created_known |-> TRUE, created |-> At(1, 14)],
          [inst |-> "2", created_known |-> TRUE, created |-> At(1, 14)]}
    ELSE {[inst |-> "278", created_known |-> TRUE, created |-> At(1, 14)],
          [inst |-> "278", created_known |-> TRUE, created |-> At(1, 18)],
          [inst |-> "310", created_known |-> TRUE, created |-> At(1, 14)],
          [inst |-> "278", created_known |-> FALSE, created |-> 0]}

\* the order books an account can start with: orders that differ in
\* instrument or age, in any order; the order ids are 1, 2, ...
PendingSamples(a) ==
    UNION { { [i \in 1..n |-> [order_id |-> i, inst |-> f[i].inst,
                               created_known |-> f[i].created_known,
                               created |-> f[i].created]]
              : f \in {g \in [1..n -> BrokerOrderSamples(a)] :
                          \A i, j \in 1..n : i # j => g[i] # g[j]} }
            : n \in 0..MaxBrokerPending }

InitReaper ==
    /\ config = DefaultConfig
    /\ probe = NoRequest
    /\ QueueVarsInit
    /\ PlaceVarsInit
    /\ brokerPending \in [Accounts -> UNION {PendingSamples(a) : a \in Accounts}]
    /\ \A a \in Accounts : brokerPending[a] \in PendingSamples(a)
    /\ now \in NowSamples
    /\ ReapVarsInit
    /\ SizerVarsInit
    /\ ExtraVarsInit

NextReaper ==
    \/ CleanStart
    \/ CleanList
    \/ CleanOrder
    \/ CleanReturn
    \/ \E a \in Accounts : BrokerFill(a)

SpecReaper == InitReaper /\ [][NextReaper]_vars

\* cleanup cycles in succession while nothing else happens at the brokers
NextReaperQuiet ==
    \/ CleanStart
    \/ CleanList
    \/ CleanOrder
    \/ CleanReturn

SpecReaperQuiet == InitReaper /\ [][NextReaperQuiet]_vars

(***************************************************************************)
(* Properties of the reaper.                                               *)
(***************************************************************************)
\* the closed-bar count of a listed order under the phase and session model
\* its symbol stands for (forex, metals and indices: -120 and 24x5)
ClosedBars(order) == ClosedCandles(order.created, now, -120, SESSION_24X5)

\* C10: when a cycle has ended, cancel_order was invoked on a listed order
\* if and only if its creation time is known and its closed-bar count is at
\* least order_timeout_candles.
Claim_C10 ==
    cleanPc = "done" =>
        \A p \in listedLog :
            (<<p[1], p[2].order_id>> \in cancelLog)
            <=> ( /\ p[2].created_known
                  /\ ClosedBars(p[2]) >= config.order_timeout_candles )


\* the order of scenario S5: created Friday 18:00 UTC, examined Monday 06:00 UTC
IsS5(order) ==
    order.created_known /\ order.created = At(1, 18) /\ now = At(4, 6)

\* C11 as stated: the order of S5 has 4 closed bars and, the cycle ended, has
\* been cancelled.
Claim_C11 ==
    cleanPc = "done" =>
        \A p \in listedLog :
            IsS5(p[2]) => /\ ClosedBars(p[2]) = 4
                          /\ <<p[1], p[2].order_id>> \in cancelLog

\* C11, amended: the order of S5 has 3 closed bars (Friday 18:00, Sunday
\* 22:00, Monday 02:00), fewer than order_timeout_candles = 4, and the reaper
\* never invokes cancel_order on it.
Inv_C11 ==
    \A p \in listedLog :
        IsS5(p[2]) => /\ ClosedBars(p[2]) = 3
                      /\ config.order_timeout_candles = 4
                      /\ <<p[1], p[2].order_id>> \notin cancelLog

\* a cycle has ended in which the order of S5 was listed and examined
Wit_C11 ==
    /\ cleanPc = "done"
    /\ \E p \in listedLog :
          /\ IsS5(p[2])
          /\ p[1] \notin cleanErrors
          /\ ~check_order_expired(config, p[2], now).raised

Claim_C13 ==
    cleanPc = "done" =>
        \A p \in listedLog :
            check_order_expired(config, p[2], now).is_expired
            => <<p[1], p[2].order_id>> \in cancelLog

(***************************************************************************)
(* SpecCandle: count_closed_candles on a bar's length.                     *)
(***************************************************************************)
\* the days after the epoch from which the instant t is taken
CandleDays == 7

\* a forex pair and a crypto pair outside the catalog (24x5 and 24x7)
CandleSymbols == {"GBPUSD", "BTCUSD"}

CandleInputs ==
    { [symbol |-> s, t |-> t] : s \in CandleSymbols, t \in 0..(CandleDays * 1440 - 1) }

InitCandle ==
    /\ config = DefaultConfig
    /\ probe = NoRequest
    /\ QueueVarsInit
    /\ BrokerVarsInit
    /\ PlaceVarsInit
    /\ now = 0
    /\ ReapVarsInit
    /\ SizerVarsInit
    /\ PaceVarsInit
    /\ candIn \in CandleInputs
    /\ candOut = NoCount
    /\ AdapterVarsInit
    /\ TokenVarsInit
    /\ RpcVarsInit
    /\ ValueVarsInit
    /\ ParseVarsInit
    /\ ShareVarsInit
    /\ OrdVarsInit

NextCandle == CountCandles

SpecCandle == InitCandle /\ [][NextCandle]_vars

\* the market is open at t under 24x5: it is closed from Friday 22:00 UTC to
\* Sunday 22:00 UTC (the epoch is a Thursday, 00:00 UTC)
Open24x5(t) ==
    LET since_monday == (t + 3 * 1440) % (7 * 1440)
    IN  ~(since_monday >= 4 * 1440 + 22 * 60 /\ since_monday < 6 * 1440 + 22 * 60)

\* C24: under 24x5, the closed-bar count from t to t is 0 and the count from
\* t to t + one bar (240 minutes) is 1 if and only if the market is open at t.
Inv_C24 ==
    (candOut.done /\ get_candle_params(config, candIn.symbol).session_model = SESSION_24X5)
        => /\ ~candOut.raised
           /\ candOut.same = 0
           /\ candOut.next \in {0, 1}
           /\ candOut.next = 1 <=> Open24x5(candIn.t)

\* Friday 21:59 UTC: the market is open and the bar of t is counted
Wit_C24 ==
    /\ candOut.done
    /\ candIn = [symbol |-> "GBPUSD", t |-> At(1, 21) + 59]
    /\ candOut.next = 1

(***************************************************************************)
(* SpecSizer: the position sizer applied to sample instruments and orders. *)
(***************************************************************************)
Forex == 100000     \* contract_size of a standard lot

\* instruments, each with an entry price and a stop loss
SizerCases ==
    LET std == Frac(1, 10000)
        jpy == Frac(1, 100)
        case(pip, pvl, quote, entry, sl) ==
            [config |-> SizerConfig(pip, pvl, Forex, quote), entry_price |-> entry,
             sl_price |-> sl]
    IN  { case(std, Given(Whole(10)), "", Frac(10850, 10000), Frac(10820, 10000)),
          case(std, Given(Whole(10)), "", Frac(10850, 10000), Frac(10788, 10000)),
          case(std, Given(Whole(10)), "", Frac(10850, 10000), Frac(10850, 10000)),
          case(std, NoValue, "USD", Frac(10850, 10000), Frac(10820, 10000)),
          case(jpy, NoValue, "JPY", Frac(15050, 100), Frac(15100, 100)),
          case(jpy, NoValue, "JPY", Frac(9500, 100), Frac(9550, 100)),
          case(std, NoValue, "ZAR", Frac(16291, 1000), Frac(16348, 1000)),
          case(Frac(1, 1000), NoValue, "ZAR", Frac(16291, 1000), Frac(16348, 1000)),
          case(std, NoValue, "CHF", Frac(5200, 10000), Frac(5150, 10000)),
          case(std, NoValue, "SEK", Frac(10500, 1000), Frac(10550, 1000)) }

\* min_lot, max_lot, lot_step: the defaults of calculate, and a coarser set
LotRules ==
    { [min_lot |-> Frac(1, 100), max_lot |-> Whole(100), lot_step |-> Frac(1, 100)],
      [min_lot |-> Frac(1, 10), max_lot |-> Whole(1), lot_step |-> Frac(1, 10)] }

SizerInputs ==
    { [config |-> c.config, entry_price |-> c.entry_price, sl_price |-> c.sl_price,
       account_value |-> Whole(account), risk_percent |-> risk,
       current_price |-> price, quote_to_usd_rate |-> rate,
       min_lot |-> l.min_lot, max_lot |-> l.max_lot, lot_step |-> l.lot_step]
      : c \in SizerCases, account \in {1000, 50000, 97000, 100000},
        risk \in {Frac(1, 2), Whole(1)}, price \in {NoValue, Given(Whole(2))},
        rate \in {NoValue, Given(Whole(0)), Given(Frac(66, 10000)), Given(Frac(55, 1000))},
        l \in LotRules }

InitSizer ==
    /\ config = DefaultConfig
    /\ probe = NoRequest
    /\ QueueVarsInit
    /\ BrokerVarsInit
    /\ PlaceVarsInit
    /\ now = 0
    /\ ReapVarsInit
    /\ sizeIn \in SizerInputs
    /\ sizeOut = NoSize
    /\ sizePip = NoValue
    /\ ExtraVarsInit

NextSizer ==
    \/ SizerCalculate
    \/ SizerGetPipValue

SpecSizer == InitSizer /\ [][NextSizer]_vars

(***************************************************************************)
(* Properties of the position sizer.                                       *)
(***************************************************************************)
\* the target risk: accountValue * riskPercent / 100
TargetRisk == RiskAmount(sizeIn)

\* the pip value per lot that calculate works with
PipValuePerLot ==
    get_pip_value(sizeIn.config, PriceUsed(sizeIn), sizeIn.quote_to_usd_rate)

\* C14 as stated: the realized risk returned is at most 1.05 times the target
\* risk, or the resulting lots equal min_lot.
Claim_C14 ==
    sizeOut.done =>
        \/ FLeq(sizeOut.risk_amount, FMul(Frac(105, 100), TargetRisk))
        \/ sizeOut.lots = sizeIn.min_lot

\* C14, amended: the realized risk exceeds the target risk by at most the
\* risk of half a lot step (lot_step / 2 * slPips * pipValuePerLot), or the
\* resulting lots equal min_lot; the factor 1.05 holds whenever the unrounded
\* lots are at least ten lot steps.
Inv_C14 ==
    sizeOut.done /\ sizeOut.details = "ok" =>
        \/ sizeOut.lots = sizeIn.min_lot
        \/ /\ FLeq(sizeOut.risk_amount,
                   FAdd(TargetRisk,
                        FMul(FMul(FDiv(sizeIn.lot_step, Whole(2)), sizeOut.sl_pips),
                             PipValuePerLot)))
           /\ FLeq(FMul(Whole(10), sizeIn.lot_step), RawLots(sizeIn.config, sizeIn))
              => FLeq(sizeOut.risk_amount, FMul(Frac(105, 100), TargetRisk))

\* the sizer rounded the lots up to a value above min_lot, and the realized
\* risk is above 1.05 times the target
Wit_C14 ==
    /\ sizeOut.done
    /\ sizeOut.details = "ok"
    /\ FLess(sizeIn.min_lot, sizeOut.lots)
    /\ FLess(FMul(Frac(105, 100), TargetRisk), sizeOut.risk_amount)

\* C15: with no static pip value and a quote currency of the default table,
\* the pip value per lot that _get_pip_value returns deviates from the table
\* default, adjusted for the pip size, by at most 50%.
Inv_C15 ==
    ( /\ sizePip.given
      /\ ~sizeIn.config.pip_value_per_lot.given
      /\ sizeIn.config.quote_currency \in DOMAIN DEFAULT_PIP_VALUES )
    => FLeq(Deviation(sizePip.v, default_pip_value(sizeIn.config).v), Frac(1, 2))

\* the dynamic estimate was more than 50% away from the default, and
\* _get_pip_value returned the default
Wit_C15 ==
    /\ sizePip.given
    /\ ~sizeIn.config.pip_value_per_lot.given
    /\ sizeIn.config.quote_currency \in DOMAIN DEFAULT_PIP_VALUES
    /\ LET c == calculated_pip_value(sizeIn.config, PriceUsed(sizeIn),
                                     sizeIn.quote_to_usd_rate)
       IN  /\ c.given
           /\ FLess(Frac(1, 2), Deviation(c.v, default_pip_value(sizeIn.config).v))
    /\ sizePip.v = default_pip_value(sizeIn.config).v

\* the call of scenario S3: equity 97 000, risk 0.5%, entry 16.291, stop loss
\* 16.348, quote currency ZAR, pip size 0.0001, no static pip value, no
\* current price, no rate, the default lot rules
IsS3 ==
    /\ sizeIn.config = SizerConfig(Frac(1, 10000), NoValue, Forex, "ZAR")
    /\ sizeIn.account_value = Whole(97000)
    /\ sizeIn.risk_percent = Frac(1, 2)
    /\ sizeIn.entry_price = Frac(16291, 1000)
    /\ sizeIn.sl_price = Frac(16348, 1000)
    /\ ~sizeIn.current_price.given
    /\ ~sizeIn.quote_to_usd_rate.given
    /\ sizeIn.lot_step = Frac(1, 100)

\* C16 as stated: in S3 the pip value per lot is the table default 0.55 and
\* the sizer returns 1.55 lots.
Claim_C16 ==
    IsS3 => /\ sizePip.given => sizePip.v = Frac(55, 100)
            /\ sizeOut.done => sizeOut.lots = Frac(155, 100)

\* C16, amended: in S3 the dynamic estimate 10 / 16.291 (about 0.614) is
\* within 50% of the default 0.55, so the gate lets it pass, and the sizer
\* returns 1.39 lots.
Inv_C16 ==
    IsS3 => /\ sizePip.given => /\ sizePip.v = FDiv(Whole(10), Frac(16291, 1000))
                                /\ FLess(Frac(61, 100), sizePip.v)
                                /\ FLess(sizePip.v, Frac(62, 100))
            /\ sizeOut.done => sizeOut.lots = Frac(139, 100)

\* both calls of S3 have returned
Wit_C16 == IsS3 /\ sizePip.given /\ sizeOut.done

(***************************************************************************)
(* SpecWorker: the queue worker's loop and the clock.                      *)
(***************************************************************************)
InitWorker ==
    /\ config \in DelayConfigs
    /\ probe = NoRequest
    /\ QueueVarsInit
    /\ BrokerVarsInit
    /\ PlaceVarsInit
    /\ now = 0
    /\ ReapVarsInit
    /\ SizerVarsInit
    /\ ExtraVarsInit

NextWorker ==
    \/ SignalPut
    \/ TimePasses
    \/ WorkerTake
    \/ WorkerWait
    \/ WorkerRun
    \/ WorkerFinally

SpecWorker == InitWorker /\ [][NextWorker]_vars

\* the worker's thread is scheduled, and place_signal comes to an end
SpecWorkerFair ==
    /\ SpecWorker
    /\ WF_vars(WorkerTake) /\ WF_vars(WorkerWait) /\ WF_vars(WorkerRun)
    /\ WF_vars(WorkerFinally)

(***************************************************************************)
(* Properties of the worker's loop.                                        *)
(***************************************************************************)
\* C21: for any two consecutively dequeued signals the dispatch of the second
\* starts at least min_delay_ms (the worker's lower delay: min_ms, or 1000 ms
\* with the delays disabled) after the dispatch of the first was completed.
Inv_C21 ==
    \A i \in 2..Len(runs) : runs[i].start - runs[i - 1].end >= min_delay_ms(config)

\* the second dispatch began exactly min_delay_ms after the first ended, the
\* worker having slept all of the shortest delay
Wit_C21 ==
    /\ Len(runs) = 2
    /\ runs[1].end > 0
    /\ runs[2].start - runs[1].end = min_delay_ms(config)

SequencerConfigs ==
    DelayConfigs \cup
    { [DefaultConfig EXCEPT !.delay_between_brokers.min_ms = 3000,
                            !.delay_between_brokers.max_ms = 500] }

InitSequencer ==
    /\ config \in SequencerConfigs
    /\ probe = NoRequest
    /\ QueueVarsInit
    /\ BrokerVarsInit
    /\ PlaceVarsInit
    /\ now = 0
    /\ ReapVarsInit
    /\ SizerVarsInit
    /\ ExtraVarsInit

\* the worker's thread is scheduled, and place_signal comes to an end
SpecSequencer ==
    /\ InitSequencer /\ [][NextWorker]_vars
    /\ WF_vars(WorkerTake) /\ WF_vars(WorkerWait) /\ WF_vars(WorkerRun)
    /\ WF_vars(WorkerFinally)

\* C40: every signal put on the queue is eventually handed to place_signal.
Claim_C40 ==
    \A r \in 1..MaxSignals :
        (nput >= r) ~> (\E i \in 1..Len(runs) : runs[i].rid = r)

(***************************************************************************)
(* SpecAdapter: the adapters' operations in every adapter state.           *)
(***************************************************************************)
InitAdapter ==
    /\ config = DefaultConfig
    /\ probe = NoRequest
    /\ QueueVarsInit
    /\ BrokerVarsInit
    /\ PlaceVarsInit
    /\ now = 0
    /\ ReapVarsInit
    /\ SizerVarsInit
    /\ ExtraVarsInit

NextAdapter ==
    \/ \E a \in AdapterTypes : AdapterConnect(a)
    \/ \E a \in AdapterTypes : AdapterDisconnect(a)
    \/ \E a \in AdapterTypes : AdapterCall(a)
    \/ CancelBegin
    \/ CancelAttempt
    \/ ReaperRecords

SpecAdapter == InitAdapter /\ [][NextAdapter]_vars

\* the DELETE requests of the call
Deletes == SelectSeq(delLog, LAMBDA e : e.kind = "DELETE")
Sleeps == SelectSeq(delLog, LAMBDA e : e.kind = "sleep")

\* C25: a DELETE answered 404 ends cancel_order with success, no further
\* request follows it, and the reaper records no error for the order.
Inv_C25 ==
    \A i \in 1..Len(delLog) :
        (delLog[i].kind = "DELETE" /\ delLog[i].answer = "404") =>
            /\ i = Len(delLog)
            /\ delPc \in {"returned", "recorded"}
            /\ delResult.success
            /\ statsErrors = <<>>

\* the first DELETE timed out, the second was answered 404, and the reaper
\* has looked at the result
Wit_C25 ==
    /\ delPc = "recorded"
    /\ Len(Deletes) = 2
    /\ Deletes[1].answer = "timeout"
    /\ Deletes[2].answer = "404"

\* C28: no operation of an adapter ends with an exception, whatever the
\* adapter's state and the handle or order id it is given.
Claim_C28 == adCall.outcome # "raises"

\* C30: when every DELETE times out, cancel_order has sent three of them
\* (the first attempt and two retries), has slept 2 s before each retry, and
\* reports failure after the third.
Claim_C30 ==
    (/\ delPc \in {"returned", "recorded"}
     /\ Len(Deletes) > 0
     /\ \A i \in 1..Len(Deletes) : Deletes[i].answer = "timeout")
        => /\ Len(Deletes) = 3
           /\ Len(Sleeps) = 2
           /\ \A i \in 1..Len(Sleeps) : Sleeps[i].ms = 2000
           /\ ~delResult.success

\* C31: a DELETE answered with a status that is neither 2xx nor 404 ends
\* cancel_order: failure carrying that status, and no further DELETE.
Claim_C31 ==
    \A i \in 1..Len(delLog) :
        (delLog[i].kind = "DELETE" /\ delLog[i].answer = "500") =>
            /\ i = Len(delLog)
            /\ delPc \in {"returned", "recorded"}
            /\ ~delResult.success
            /\ delResult.error_code = "500"

(***************************************************************************)
(* SpecToken: the rotation of the tokens, with and without a loaded        *)
(* configuration, with and without an entry for the broker in the file     *)
(* (the CT_* environment variables configure the broker in memory only).   *)
(***************************************************************************)
InitToken ==
    /\ config = DefaultConfig
    /\ probe = NoRequest
    /\ QueueVarsInit
    /\ BrokerVarsInit
    /\ PlaceVarsInit
    /\ now = 0
    /\ ReapVarsInit
    /\ SizerVarsInit
    /\ PaceVarsInit
    /\ CandleVarsInit
    /\ AdapterVarsInit
    /\ RpcVarsInit
    /\ ValueVarsInit
    /\ ParseVarsInit
    /\ ShareVarsInit
    /\ OrdVarsInit
    /\ \E listed \in BOOLEAN, loaded \in BOOLEAN, refresh \in {0, 1} :
          /\ tokDisk = Disk("full", listed, IF listed THEN Pair(1, refresh) ELSE NoPair)
          /\ tokMem = [loaded |-> loaded, pair |-> IF loaded THEN Pair(1, refresh) ELSE NoPair]
          /\ tokSelf = Pair(1, refresh)
    /\ tokPc = "idle"
    /\ tokRet = "none"
    /\ tokNew = NoPair
    /\ tokOld = NoPair
    /\ tokCount = 0

NextToken ==
    \/ RefreshPost
    \/ SaveLoad
    \/ SaveOpen
    \/ SaveDump
    \/ SaveMemory
    \/ RefreshReturn
    \/ NextSession
    \/ Crash

SpecToken == InitToken /\ [][NextToken]_vars

\* C26: once _refresh_access_token has returned True, the file and the
\* configuration in memory both hold the pair the adapter now uses.
Claim_C26 ==
    tokRet = "true" =>
        /\ tokDisk.state = "full" /\ tokDisk.listed /\ tokDisk.pair = tokSelf
        /\ tokMem.loaded /\ tokMem.pair = tokSelf

\* C27: after a crash at any step of the rotation the file is a complete
\* document holding the pair it held before the rotation or the new pair.
Claim_C27 ==
    (tokPc = "crashed" /\ tokOld # NoPair) =>
        /\ tokDisk.state = "full"
        /\ tokDisk.pair \in {tokOld, tokSelf}

\* the write of the file failed during this refresh
SaveFailed == tokPc \in {"return", "returned"} /\ tokDisk.state = "cut"

\* C32: when the write of the new pair fails, the refresh is not reported
\* as successful and the adapter holds the pair of the configuration again.
Claim_C32 ==
    (tokPc = "returned" /\ SaveFailed) =>
        /\ tokRet # "true"
        /\ tokSelf = tokMem.pair

(***************************************************************************)
(* SpecRpc: calls, timeouts and deliveries on one cTrader connection.      *)
(***************************************************************************)
InitRpc ==
    /\ config = DefaultConfig
    /\ probe = NoRequest
    /\ QueueVarsInit
    /\ BrokerVarsInit
    /\ PlaceVarsInit
    /\ now = 0
    /\ ReapVarsInit
    /\ SizerVarsInit
    /\ ExtraVarsInit

NextRpc ==
    \/ \E kind \in Kinds : RpcCall(kind)
    \/ \E n \in 1..Len(rpcReq) : RpcTimeout(n)
    \/ RpcDeliver

SpecRpc == InitRpc /\ [][NextRpc]_vars

\* C29: a request is resolved only by the response it caused.
Claim_C29 ==
    \A n \in 1..Len(rpcReq) : rpcReq[n].state = "resolved" => rpcReq[n].by = n

(***************************************************************************)
(* SpecValue: the account value for every sampled account state.           *)
(***************************************************************************)
\* balances and equities: negative, zero, positive
Amounts == {-250, -1, 0, 1, 1000, 2500}

InitValue ==
    /\ config = DefaultConfig
    /\ probe = NoRequest
    /\ QueueVarsInit
    /\ BrokerVarsInit
    /\ PlaceVarsInit
    /\ now = 0
    /\ ReapVarsInit
    /\ SizerVarsInit
    /\ PaceVarsInit
    /\ CandleVarsInit
    /\ AdapterVarsInit
    /\ TokenVarsInit
    /\ RpcVarsInit
    /\ valIn \in [use_equity : BOOLEAN, balance : Amounts, equity : Amounts]
    /\ valOut = NoValueOut
    /\ ParseVarsInit
    /\ ShareVarsInit
    /\ OrdVarsInit

NextValue == ChooseValue

SpecValue == InitValue /\ [][NextValue]_vars

\* C33: the account value handed to the sizer is strictly positive.
Claim_C33 == valOut.done => valOut.account_value > 0

(***************************************************************************)
(* SpecParse: the parser on texts with a line of an unknown key.           *)
(***************************************************************************)
TextFull ==
    << HeadLine(<<"SHORT", "GOLD", "(H4)">>), KeyLine("Entry", Num(10850)),
       KeyLine("SL", Num(10900)), KeyLine("TP", Num(10750)),
       KeyLine("ATR", Num(50)), KeyLine("Validity", Num(2)) >>

\* lines whose key the parser does not know
UnknownLines ==
    { NoteLine("EMA200", <<"10750">>),
      NoteLine("Note", <<>>),
      NoteLine("Note", <<"hello", "world">>),
      NoteLine("Comment", <<"LONG", "bias">>),
      NoteLine("Comment", <<"short", "squeeze">>),
      NoteLine("Trend", <<"long">>),
      KeyLine("Volume", Num(1200)) }

ParseInputs ==
    { [text |-> t, line |-> l, at |-> a] :
        t \in {TextLong, TextFull}, l \in UnknownLines, a \in 1..7 }

InitParse ==
    /\ config = DefaultConfig
    /\ probe = NoRequest
    /\ QueueVarsInit
    /\ BrokerVarsInit
    /\ PlaceVarsInit
    /\ now = 0
    /\ ReapVarsInit
    /\ SizerVarsInit
    /\ PaceVarsInit
    /\ CandleVarsInit
    /\ AdapterVarsInit
    /\ TokenVarsInit
    /\ RpcVarsInit
    /\ ValueVarsInit
    /\ parseIn \in {i \in ParseInputs : i.at <= Len(i.text) + 1}
    /\ parseOut = NoParseOut
    /\ ShareVarsInit
    /\ OrdVarsInit

NextParse == ParseBoth

SpecParse == InitParse /\ [][NextParse]_vars

\* C35: a line with an unknown key changes nothing of what is parsed.
Claim_C35 == parseOut.done => parseOut.with = parseOut.plain

(***************************************************************************)
(* SpecShare: the dispatcher's and the reaper's adapters of one account.   *)
(***************************************************************************)
InitShare ==
    /\ config = DefaultConfig
    /\ probe = NoRequest
    /\ QueueVarsInit
    /\ BrokerVarsInit
    /\ PlaceVarsInit
    /\ now = 0
    /\ ReapVarsInit
    /\ SizerVarsInit
    /\ ExtraVarsInit

NextShare ==
    \/ \E h \in Holders : Construct(h)
    \/ \E h \in Holders : Connect(h)
    \/ \E h \in Holders : Discard(h)

SpecShare == InitShare /\ [][NextShare]_vars

\* C37: no refresh token is presented to the endpoint more than once.
Claim_C37 ==
    \A i, j \in 1..Len(shPresented) :
        shPresented[i].token = shPresented[j].token => i = j

(***************************************************************************)
(* SpecOrd: placements on one cTrader connection and the messages that     *)
(* arrive meanwhile.                                                       *)
(***************************************************************************)
InitOrd ==
    /\ config = DefaultConfig
    /\ probe = NoRequest
    /\ QueueVarsInit
    /\ BrokerVarsInit
    /\ PlaceVarsInit
    /\ now = 0
    /\ ReapVarsInit
    /\ SizerVarsInit
    /\ ExtraVarsInit

NextOrd ==
    \/ OrdPlace
    \/ \E n \in 1..Len(ordCalls) : OrdTimeout(n)
    \/ \E m \in OrderMessages : OrdMessage(m)

SpecOrd == InitOrd /\ [][NextOrd]_vars

\* the broker accepted the order being placed
Accepts(m) ==
    /\ m.type = "ProtoOAExecutionEvent"
    /\ m.execution \in {"ORDER_ACCEPTED", "ORDER_FILLED"}
    /\ m.about = "this"

\* C38: place_order returns success only on the broker's acceptance of that
\* order.
Claim_C38 ==
    \A n \in 1..Len(ordCalls) :
        (ordCalls[n].state = "returned" /\ ordCalls[n].success) => Accepts(ordCalls[n].by)

(***************************************************************************)
(* Further properties of the intake.                                       *)
(***************************************************************************)
\* SignalData.order_side: `OrderSide.BUY if self.side == "LONG" else OrderSide.SELL`
order_side(signal) == IF signal.side = "LONG" THEN "BUY" ELSE "SELL"

Dispatched(r) == \E i \in DOMAIN dispatchLog : dispatchLog[i] = r

\* C34: every signal that is put on the queue or handed to the dispatcher
\* has side LONG or SHORT.
Claim_C34 ==
    \A r \in Requests :
        (Enqueued(r) \/ Dispatched(r)) => reqSignal[r].side \in {"LONG", "SHORT"}

\* C36: a request that is answered with an error status has put nothing on
\* the queue, and a request that put a signal on it is answered 202.
Claim_C36 ==
    \A r \in Requests :
        reqPc[r] = "done" =>
            /\ response[r].status \in {400, 401, 403, 500} => ~Enqueued(r)
            /\ Enqueued(r) => response[r].status = 202

(***************************************************************************)
(* Further properties of the dispatcher.                                   *)
(***************************************************************************)
\* the instrument the catalog names for the account: cTrader's handles are
\* ids, TradeLocker's are names of its instrument list
CatalogInstrument(cfg, a, symbol) ==
    LET handle == get_instrument_symbol(cfg, symbol, a)
    IN  IF cfg.brokers[a].type = "tradelocker" /\ tl_instruments_reverse_map(handle) # ""
        THEN tl_instruments_reverse_map(handle)
        ELSE handle

\* C39: when the filter passed and place_order was called for the account,
\* the adapter addresses the order to the instrument the catalog names and
\* does not reject it as unmapped.
Claim_C39 ==
    (obs.idx > 0 /\ obs.filter = "passed" /\ obs.called) =>
        /\ ~obs.unmapped
        /\ ResolveOrderSymbol(config, obs.account, sigSymbol)
              = CatalogInstrument(config, obs.account, sigSymbol)
=============================================================================
